---------------------------- MODULE Spec2Model ----------------------------
(***************************************************************************)
(* Talisman, the streaming template library: the Block constructor (CDATA, *)
(* comment and child-block parsing), the RenderQueue tokenizer, the        *)
(* Renderer transform stream and the view API of createTemplate.           *)
(*                                                                         *)
(* Template text is a sequence of one-character strings.  Names (variable  *)
(* keys, mask names, block names) are strings.                             *)
(***************************************************************************)
EXTENDS Integers, Sequences, FiniteSets, TLC

VARIABLES
    phase,      \* "setup" (view returned by createTemplate), or the call that began
                \* the render: "rendering" (toStream), "toString", "toStringCb"
    segs,       \* the segments the template text was written from
    content,    \* Block.content, per qualified block name (the parsed text)
    parentOf,   \* the block whose vars and masks a block inherits from
    vars,       \* Block.vars, own properties, per qualified block name
    masks,      \* Block.masks, own properties, per qualified block name
    isVisible,  \* Block.isVisible, per qualified block name
    waitingFor, \* Block.waitingFor, per qualified block name: promise ids
    promises,   \* every promise handed to the view: kind, state and payload
    dataSource, \* Block.dataSource, per qualified block name: a promise id, or 0
    arrays,     \* the arrays and the streams the host passed, as they are now
    rend,       \* the Renderer streams, by render path
    output,     \* the chunks the consumer of toStream() has received, in order
    errors,     \* the 'error' events the consumer of toStream() has received
    memo,       \* loadFile's memo: the content kept, per resolved path
    reading     \* the calls of loadFile, in order: path, state, content, and
                \* whether the call read the disk

vars_all == <<phase, segs, content, parentOf, vars, masks, isVisible,
              waitingFor, promises, dataSource, arrays, rend, output, errors,
              memo, reading>>

-----------------------------------------------------------------------------
(* Characters and strings                                                  *)

Lower == {"a","b","c","d","e","f","g","h","i","j","k","l","m",
          "n","o","p","q","r","s","t","u","v","w","x","y","z"}
Upper == {"A","B","C","D","E","F","G","H","I","J","K","L","M",
          "N","O","P","Q","R","S","T","U","V","W","X","Y","Z"}
Letter == Lower \cup Upper
Digit == {"0","1","2","3","4","5","6","7","8","9"}

RECURSIVE Str(_)
Str(cs) == IF cs = <<>> THEN "" ELSE Head(cs) \o Str(Tail(cs))

RECURSIVE Flatten(_)
Flatten(ss) == IF ss = <<>> THEN <<>> ELSE Head(ss) \o Flatten(Tail(ss))

DigitChar(d) ==
    CASE d = 0 -> "0" [] d = 1 -> "1" [] d = 2 -> "2" [] d = 3 -> "3"
      [] d = 4 -> "4" [] d = 5 -> "5" [] d = 6 -> "6" [] d = 7 -> "7"
      [] d = 8 -> "8" [] OTHER -> "9"

RECURSIVE NumberChars(_)
NumberChars(n) ==
    IF n < 10 THEN <<DigitChar(n)>>
    ELSE NumberChars(n \div 10) \o <<DigitChar(n % 10)>>

MinOf(S) == CHOOSE x \in S : \A y \in S : x <= y
MaxOf(S) == CHOOSE x \in S : \A y \in S : x >= y

\* String.prototype.startsWith at a position (1-based)
MatchAt(s, i, pat) ==
    /\ i >= 1
    /\ i + Len(pat) - 1 <= Len(s)
    /\ SubSeq(s, i, i + Len(pat) - 1) = pat

\* first position >= from where pat occurs, or 0
IndexOf(s, pat, from) ==
    LET C == {j \in from..(Len(s) - Len(pat) + 1) : MatchAt(s, j, pat)}
    IN  IF C = {} THEN 0 ELSE MinOf(C)

\* last position >= from where pat occurs, or 0
LastIndexOf(s, pat, from) ==
    LET C == {j \in from..(Len(s) - Len(pat) + 1) : MatchAt(s, j, pat)}
    IN  IF C = {} THEN 0 ELSE MaxOf(C)

\* text from position i to the end
From(s, i) == SubSeq(s, i, Len(s))

\* the longest run of characters of class cls that starts at position i
RECURSIVE RunEnd(_, _, _)
RunEnd(s, i, cls) ==
    IF i <= Len(s) /\ s[i] \in cls THEN RunEnd(s, i + 1, cls) ELSE i - 1

\* String.prototype.split on a one-character separator
RECURSIVE Split(_, _)
Split(s, sep) ==
    LET C == {j \in 1..Len(s) : s[j] = sep}
    IN  IF C = {} THEN <<s>>
        ELSE <<SubSeq(s, 1, MinOf(C) - 1)>> \o Split(From(s, MinOf(C) + 1), sep)

-----------------------------------------------------------------------------
(* Block constructor: CDATA, comments and child blocks                     *)

CdataOpen  == <<"{","{","C","D","A","T","A","[">>
CdataClose == <<"]","}","}">>
CdataName  == <<"t","a","l","i","s","m","a","n","_","c","d","a","t","a","_">>

\* `{{{${placeholder}}}}`: three braces, the name, three braces
Spliced(name) == <<"{","{","{">> \o name \o <<"}","}","}">>

\* content.replace(cdataRegex, ...): every {{CDATA[ ... ]}} span, shortest first,
\* becomes a placeholder named after its offset; the inner text is kept in found
RECURSIVE CdataReplace(_, _)
CdataReplace(s, pos) ==
    LET j == IndexOf(s, CdataOpen, pos)
        k == IF j = 0 THEN 0 ELSE IndexOf(s, CdataClose, j + Len(CdataOpen))
    IN  IF j = 0 \/ k = 0
        THEN [text |-> From(s, pos), found |-> <<>>]
        ELSE LET rest == CdataReplace(s, k + Len(CdataClose))
                 name == CdataName \o NumberChars(j - 1)
             IN  [text  |-> SubSeq(s, pos, j - 1) \o Spliced(name) \o rest.text,
                  found |-> <<[name  |-> Str(name),
                               inner |-> SubSeq(s, j + Len(CdataOpen), k - 1)]>>
                            \o rest.found]

CommentOpen  == <<"{","/","*">>
CommentClose == <<"*","/","}">>

\* a commentRegex that is greedy: from the first {/* to the last */}
CommentStripGreedy(s, pos) ==
    LET j == IndexOf(s, CommentOpen, pos)
        k == IF j = 0 THEN 0 ELSE LastIndexOf(s, CommentClose, j + Len(CommentOpen))
    IN  IF j = 0 \/ k = 0
        THEN From(s, pos)
        ELSE LET e == k + Len(CommentClose)
                 n == IF e <= Len(s) /\ s[e] = "\n" THEN e + 1 ELSE e
             IN  SubSeq(s, pos, j - 1) \o From(s, n)

\* content.replace(commentRegex, ""): every {/* ... */} span, shortest first,
\* and one newline after it
RECURSIVE CommentStrip(_, _)
CommentStrip(s, pos) ==
    LET j == IndexOf(s, CommentOpen, pos)
        k == IF j = 0 THEN 0 ELSE IndexOf(s, CommentClose, j + Len(CommentOpen))
    IN  IF j = 0 \/ k = 0
        THEN From(s, pos)
        ELSE LET e == k + Len(CommentClose)
                 n == IF e <= Len(s) /\ s[e] = "\n" THEN e + 1 ELSE e
             IN  SubSeq(s, pos, j - 1) \o CommentStrip(s, n)

BlockNameChars == Letter \cup Digit \cup {"_", "-"}

\* the minimum length of a block name: [a-zA-Z][a-zA-Z0-9_-]+
MinBlockName == 2

\* blockRegex tried at position j: {#name}, the longest text, {/name}, one newline
BlockMatchAt(s, j) ==
    LET e    == RunEnd(s, j + 2, BlockNameChars)
        name == SubSeq(s, j + 2, e)
        k    == LastIndexOf(s, <<"{","/">> \o name \o <<"}">>, e + 2)
        stop == k + Len(name) + 3
    IN  IF /\ MatchAt(s, j, <<"{","#">>)
           /\ Len(name) >= MinBlockName
           /\ name[1] \in Letter
           /\ MatchAt(s, e + 1, <<"}">>)
           /\ k # 0
        THEN [ok |-> TRUE, name |-> name, inner |-> SubSeq(s, e + 2, k - 1),
              next |-> IF stop <= Len(s) /\ s[stop] = "\n" THEN stop + 1 ELSE stop]
        ELSE [ok |-> FALSE]

\* content.replace(blockRegex, ...): every child block span, leftmost first,
\* becomes a placeholder named after the block; the spans are kept in found
RECURSIVE BlockReplace(_, _)
BlockReplace(s, pos) ==
    LET C == {j \in pos..Len(s) : BlockMatchAt(s, j).ok}
    IN  IF C = {}
        THEN [text |-> From(s, pos), found |-> <<>>]
        ELSE LET j    == MinOf(C)
                 m    == BlockMatchAt(s, j)
                 rest == BlockReplace(s, m.next)
             IN  [text  |-> SubSeq(s, pos, j - 1) \o Spliced(m.name) \o rest.text,
                  found |-> <<[name |-> Str(m.name), inner |-> m.inner]>>
                            \o rest.found]

-----------------------------------------------------------------------------
(* RenderQueue: the tokenizer                                              *)

TagNameChars == Letter \cup Digit \cup {"_", "-", ".", "|"}

\* the minimum length of a tag name: [a-zA-Z][a-zA-Z0-9_\-\.\|]*[a-zA-Z0-9]
MinTagName == 2

\* a grammar that takes a name of one letter
TagNameOkShort(name) ==
    /\ Len(name) >= 1
    /\ name[1] \in Letter
    /\ name[Len(name)] \in Letter \cup Digit

\* a name the tag grammar accepts
TagNameOk(name) ==
    /\ Len(name) >= MinTagName
    /\ name[1] \in Letter
    /\ name[Len(name)] \in Letter \cup Digit

\* tagRegex tried at position j: one or two opening braces, the name, one or
\* two closing braces, each as long as it can be
TagMatchAt(s, j) ==
    LET two  == MatchAt(s, j, <<"{","{">>)
        n0   == IF two THEN j + 2 ELSE j + 1
        e    == RunEnd(s, n0, TagNameChars)
        name == SubSeq(s, n0, e)
    IN  IF /\ MatchAt(s, j, <<"{">>)
           /\ TagNameOk(name)
           /\ MatchAt(s, e + 1, <<"}">>)
        THEN [ok |-> TRUE, name |-> name, opens2 |-> two, last |-> e + 1,
              closes2 |-> MatchAt(s, e + 1, <<"}","}">>)]
        ELSE [ok |-> FALSE]

TextElement(t) ==
    [is |-> "text", text |-> t, escape |-> FALSE, name |-> "",
     masks |-> <<>>, deeplinks |-> <<>>]

Eof == [is |-> "eof", text |-> <<>>, escape |-> FALSE, name |-> "",
        masks |-> <<>>, deeplinks |-> <<>>]

RECURSIVE StrEach(_)
StrEach(ss) == IF ss = <<>> THEN <<>> ELSE <<Str(Head(ss))>> \o StrEach(Tail(ss))

\* the tag object: the name up to the first pipe, the masks after it; then the
\* name up to the first dot, the deeplinks after it
TagElement(tagName, escape) ==
    LET byPipe == Split(tagName, "|")
        byDot  == Split(Head(byPipe), ".")
    IN  [is |-> "tag", text |-> <<>>, escape |-> escape,
         name |-> Str(Head(byDot)),
         masks |-> StrEach(Tail(byPipe)),
         deeplinks |-> StrEach(Tail(byDot))]

\* a _read that takes the match as it is, unbalanced or not
CorrectedNever(m, j) ==
    [index |-> j, stop |-> IF m.closes2 THEN m.last + 1 ELSE m.last,
     escape |-> ~(m.opens2 /\ m.closes2)]

\* the brace correction of _read: the tag's first and last position in the text
\* and whether it escapes
Corrected(m, j) ==
    IF m.opens2
    THEN IF m.closes2
         THEN [index |-> j, stop |-> m.last + 1, escape |-> FALSE]
         ELSE [index |-> j + 1, stop |-> m.last, escape |-> TRUE]
    ELSE [index |-> j, stop |-> m.last, escape |-> TRUE]

\* RenderQueue._read: what one call pushes, and the text it leaves
RenderQueueRead(templateText) ==
    LET C == {j \in 1..Len(templateText) : TagMatchAt(templateText, j).ok}
    IN  IF Len(templateText) = 0
        THEN [pushed |-> <<Eof>>, rest |-> <<>>]
        ELSE IF C = {}
        THEN [pushed |-> <<TextElement(templateText)>>, rest |-> <<>>]
        ELSE LET j == MinOf(C)
                 m == TagMatchAt(templateText, j)
                 c == Corrected(m, j)
             IN  [pushed |-> <<TextElement(SubSeq(templateText, 1, c.index - 1)),
                               TagElement(m.name, c.escape)>>,
                  rest   |-> From(templateText, c.stop + 1)]

-----------------------------------------------------------------------------
(* createTemplate: the block tree and the block map                        *)

\* talisman.js: const root = "__talisman_root__"
Root == "__talisman_root__"

NoBlock == "(none)"

\* [this.name, name].join(":")
ChildName(parent, name) == parent \o ":" \o name

\* a lookup that answers with the root when the name is not on the block map
FullNameOrRoot(blockName) ==
    IF blockName = "" \/ ChildName(Root, blockName) \notin DOMAIN content
    THEN Root
    ELSE ChildName(Root, blockName)

\* seekBlockByName: [root, name].filter(n => !!n).join(":")
FullName(blockName) == IF blockName = "" THEN Root ELSE ChildName(Root, blockName)

Undefined  == [t |-> "undefined"]
StrVal(cs) == [t |-> "str", s |-> cs]
BlockVal(b) == [t |-> "block", b |-> b]
PromiseVal(p) == [t |-> "promise", p |-> p]
\* a function the host binds, by what a call of it returns
FnVal(v) == [t |-> "fn", r |-> v]
\* a Readable byte stream the host binds: its place in arrays, and the events
\* the host put into it
BytesVal(a, given) == [t |-> "bytes", a |-> a, given |-> given]

\* a constructor that makes the blocks found in its own text, and leaves the
\* text of those unparsed
BuildBlocksShallow(raw, qname, parent) ==
    LET c == CdataReplace(raw, 1)
        b == BlockReplace(CommentStrip(c.text, 1), 1)
    IN  {[name |-> qname, parent |-> parent, content |-> b.text,
          cdata |-> c.found, kids |-> b.found]}
        \cup {[name |-> ChildName(qname, b.found[i].name), parent |-> qname,
               content |-> b.found[i].inner, cdata |-> <<>>, kids |-> <<>>]
              : i \in DOMAIN b.found}

\* new Block(content, {name, vars, masks, blockmap}): the block and, through
\* addChild, every block nested in it
RECURSIVE BuildBlocks(_, _, _)
BuildBlocks(raw, qname, parent) ==
    LET c == CdataReplace(raw, 1)
        b == BlockReplace(CommentStrip(c.text, 1), 1)
    IN  {[name |-> qname, parent |-> parent, content |-> b.text,
          cdata |-> c.found, kids |-> b.found]}
        \cup UNION {BuildBlocks(b.found[i].inner,
                                ChildName(qname, b.found[i].name), qname)
                    : i \in DOMAIN b.found}

\* the own properties a sequence of assignments leaves in a table, later ones winning
RECURSIVE Assigned(_, _)
Assigned(table, kvs) ==
    IF kvs = <<>> THEN table
    ELSE Assigned((Head(kvs).k :> Head(kvs).v) @@ table, Tail(kvs))

\* this.vars after construction: the CDATA texts, then the child blocks
BuiltVars(blk) ==
    LET cd == [i \in DOMAIN blk.cdata |->
                  [k |-> blk.cdata[i].name, v |-> StrVal(blk.cdata[i].inner)]]
        ch == [i \in DOMAIN blk.kids |->
                  [k |-> blk.kids[i].name,
                   v |-> BlockVal(ChildName(blk.name, blk.kids[i].name))]]
    IN  Assigned(<<>>, cd \o ch)

-----------------------------------------------------------------------------
(* Scoped lookup: Object.create(parent.vars), Object.create(parent.masks)  *)

\* this.block.vars[name]: the own property, else the parent's, else undefined
\* a lookup that prefers the farthest table: the root's value wins
RECURSIVE LookupVarFarthest(_, _, _, _)
LookupVarFarthest(table, parents, b, k) ==
    LET above == IF parents[b] = NoBlock THEN Undefined
                 ELSE LookupVarFarthest(table, parents, parents[b], k)
    IN  IF above # Undefined THEN above
        ELSE IF k \in DOMAIN table[b] THEN table[b][k]
        ELSE Undefined

RECURSIVE LookupVar(_, _, _, _)
LookupVar(table, parents, b, k) ==
    IF k \in DOMAIN table[b] THEN table[b][k]
    ELSE IF parents[b] = NoBlock THEN Undefined
    ELSE LookupVar(table, parents, parents[b], k)

\* one table for the whole view: any block that holds the name answers
HolderAnywhere(table, parents, b, k) ==
    IF \E h \in DOMAIN table : k \in DOMAIN table[h]
    THEN CHOOSE h \in DOMAIN table : k \in DOMAIN table[h]
    ELSE NoBlock

\* the block whose table answers a lookup, or NoBlock
RECURSIVE Holder(_, _, _, _)
Holder(table, parents, b, k) ==
    IF k \in DOMAIN table[b] THEN b
    ELSE IF parents[b] = NoBlock THEN NoBlock
    ELSE Holder(table, parents, parents[b], k)

\* a block and the blocks it inherits from, nearest first
RECURSIVE Chain(_, _)
Chain(parents, b) ==
    IF parents[b] = NoBlock THEN <<b>> ELSE <<b>> \o Chain(parents, parents[b])

-----------------------------------------------------------------------------
(* Values and transforms                                                   *)

\* html-escape, as the tests show it: & and < are replaced, > is kept
RECURSIVE htmlescape(_)
htmlescape(cs) ==
    IF cs = <<>> THEN <<>>
    ELSE (CASE Head(cs) = "&" -> <<"&","a","m","p",";">>
            [] Head(cs) = "<" -> <<"&","l","t",";">>
            [] OTHER -> <<Head(cs)>>) \o htmlescape(Tail(cs))

RECURSIVE Reverse(_)
Reverse(cs) == IF cs = <<>> THEN <<>> ELSE Reverse(Tail(cs)) \o <<Head(cs)>>

\* the mask functions the host registers: s => s.split("").reverse().join(""),
\* and one that wraps the value in markup
ApplyMask(fn, cs) ==
    CASE fn = "htmlescape" -> htmlescape(cs)
      [] fn = "reverse"    -> Reverse(cs)
      [] fn = "bold"       -> <<"<">> \o cs \o <<">">>
      [] OTHER             -> cs

\* a chain applied from its last name to its first
RECURSIVE ApplyMasksBackwards(_, _, _, _, _)
ApplyMasksBackwards(table, parents, b, names, cs) ==
    IF names = <<>> THEN cs
    ELSE LET h == Holder(table, parents, b, names[Len(names)])
         IN  ApplyMasksBackwards(table, parents, b, SubSeq(names, 1, Len(names) - 1),
                                 IF h = NoBlock THEN cs
                                 ELSE ApplyMask(table[h][names[Len(names)]], cs))

\* a chain that stops at the first name the block's scope does not hold
RECURSIVE ApplyMasksUntilUnknown(_, _, _, _, _)
ApplyMasksUntilUnknown(table, parents, b, names, cs) ==
    IF names = <<>> THEN cs
    ELSE LET h == Holder(table, parents, b, Head(names))
         IN  IF h = NoBlock THEN cs
             ELSE ApplyMasksUntilUnknown(table, parents, b, Tail(names),
                                         ApplyMask(table[h][Head(names)], cs))

\* element.masks.forEach: each mask the block's scope holds is applied in turn,
\* a name it does not hold is passed over
RECURSIVE ApplyMasks(_, _, _, _, _)
ApplyMasks(table, parents, b, names, cs) ==
    IF names = <<>> THEN cs
    ELSE LET h == Holder(table, parents, b, Head(names))
         IN  ApplyMasks(table, parents, b, Tail(names),
                        IF h = NoBlock THEN cs
                        ELSE ApplyMask(table[h][Head(names)], cs))

\* tools.isStringOrBuffer: a non-empty string
isStringOrBuffer(v) == v.t = "str" /\ v.s # <<>>

\* tools.isNullOrUndefined
isNullOrUndefined(v) == v.t = "undefined"

NumVal(n) == [t |-> "num", n |-> n]
Thrown    == [t |-> "thrown"]

\* Renderer.getDeeplinkValue: one property read per link; a block is read through
\* its vars, a string has a length, reading a property of undefined throws
RECURSIVE getDeeplinkValue(_, _, _, _)
getDeeplinkValue(table, parents, inputObject, deeplinks) ==
    LET thisLink  == Head(deeplinks)
        linkValue ==
            CASE inputObject.t = "block" ->
                     LookupVar(table, parents, inputObject.b, thisLink)
              [] inputObject.t = "str" /\ thisLink = "length" ->
                     NumVal(Len(inputObject.s))
              [] OTHER -> Undefined
    IN  IF inputObject.t \in {"undefined", "thrown"} THEN Thrown
        ELSE IF Len(deeplinks) > 1
        THEN getDeeplinkValue(table, parents, linkValue, Tail(deeplinks))
        ELSE linkValue

\* a processElement that reads an unbound name as a question mark
TagValueOrMark(table, parents, b, e) ==
    LET data == LookupVar(table, parents, b, e.name)
    IN  IF data = Undefined THEN StrVal(<<"?">>)
        ELSE IF e.deeplinks # <<>>
        THEN getDeeplinkValue(table, parents, data, e.deeplinks)
        ELSE data

\* processElement on a tag: this.block.vars[element.name], then the deeplinks
TagValue(table, parents, b, e) ==
    LET data == LookupVar(table, parents, b, e.name)
    IN  IF e.deeplinks # <<>>
        THEN getDeeplinkValue(table, parents, data, e.deeplinks)
        ELSE data

\* a processElement that returns what a function returned without processing it:
\* a function returned by a function is written by its toString()
RECURSIVE AwaitedCallOnce(_, _)
AwaitedCallOnce(ps, v) ==
    IF v.t = "promise" /\ ps[v.p].state = "resolved"
    THEN AwaitedCallOnce(ps, ps[v.p].payload)
    ELSE IF v.t = "fn"
    THEN IF v.r.t = "fn" THEN StrVal(<<"f", "n">>) ELSE AwaitedCallOnce(ps, v.r)
    ELSE v

\* processElement recursing: a settled promise stands for its value, a pending
\* one for itself, and a function for what a call of it returns
RECURSIVE Awaited(_, _)
Awaited(ps, v) ==
    IF v.t = "promise" /\ ps[v.p].state = "resolved"
    THEN Awaited(ps, ps[v.p].payload)
    ELSE IF v.t = "fn" THEN Awaited(ps, v.r)
    ELSE v

\* data.toString()
ToChars(v) == IF v.t = "num" THEN NumberChars(v.n) ELSE v.s

-----------------------------------------------------------------------------
(* The view API (createTemplate's api object), called before toStream()    *)

Blocks == DOMAIN content

\* the values the host binds: one per block and key, so that a rendered value
\* tells where it was set
BlockMark(blockName) ==
    CASE blockName = "" -> "R" [] blockName = "b1" -> "C"
      [] blockName = "b2" -> "D" [] OTHER -> "E"
KeyMark(key) ==
    CASE key = "n1" -> "1" [] key = "n2" -> "2" [] OTHER -> "m"
ValueFor(blockName, key) == <<BlockMark(blockName), "<", KeyMark(key)>>

\* the most promises the host hands to one view
MaxPromises == 2

NewPromise(kind, block, payload) ==
    [kind |-> kind, state |-> "pending", at |-> 0, block |-> block,
     payload |-> payload]

\* api.set(data, blockName) with a plain object {key: value}; the value is a
\* string or a promise for one.  Block.setVariables assigns in a microtask that
\* runs before any other handler, so the assignment is part of the call.
Set(blockName, key, promised) ==
    LET target == FullName(blockName)
        pid    == Len(promises) + 1
        value  == StrVal(ValueFor(blockName, key))
    IN  /\ phase = "setup"
        /\ promised => Len(promises) < MaxPromises
        /\ IF target \in Blocks
           THEN /\ vars' = [vars EXCEPT ![target] =
                              (key :> (IF promised THEN PromiseVal(pid) ELSE value)) @@ @]
                /\ promises' = IF promised
                               THEN Append(promises, NewPromise("value", target, value))
                               ELSE promises
           ELSE UNCHANGED <<vars, promises>>
        /\ UNCHANGED <<phase, segs, memo, reading, content, parentOf, masks, isVisible, waitingFor, rend, output, errors, dataSource, arrays>>

\* api.set(promise, blockName) with a promise for {key: value}: Block.setVariables
\* assigns when it resolves and the block waits for that
SetPromisedTo(blockName, key, value) ==
    LET target == FullName(blockName)
        pid    == Len(promises) + 1
        kv     == (key :> value)
    IN  /\ phase = "setup"
        /\ Len(promises) < MaxPromises
        /\ IF target \in Blocks
           THEN /\ promises' = Append(promises, NewPromise("vars", target, kv))
                /\ waitingFor' = [waitingFor EXCEPT ![target] = Append(@, pid)]
           ELSE UNCHANGED <<promises, waitingFor>>
        /\ UNCHANGED <<phase, segs, memo, reading, content, parentOf, vars, masks, isVisible, rend, output, errors, dataSource, arrays>>

SetPromised(blockName, key) ==
    SetPromisedTo(blockName, key, StrVal(ValueFor(blockName, key)))

\* api.set(data, blockName) with the plain object or the Map {key: value}
SetTo(blockName, key, value) ==
    LET target == FullName(blockName)
    IN  /\ phase = "setup"
        /\ vars' = IF target \in Blocks
                   THEN [vars EXCEPT ![target] = (key :> value) @@ @]
                   ELSE vars
        /\ UNCHANGED <<phase, segs, memo, reading, content, parentOf, masks,
                       isVisible, waitingFor, promises, rend, output, errors,
                       dataSource, arrays>>

\* api.waitUntil(promise, blockName)
WaitUntil(blockName) ==
    LET target == FullName(blockName)
        pid    == Len(promises) + 1
    IN  /\ phase = "setup"
        /\ Len(promises) < MaxPromises
        /\ IF target \in Blocks
           THEN /\ promises' = Append(promises, NewPromise("wait", target, Undefined))
                /\ waitingFor' = [waitingFor EXCEPT ![target] = Append(@, pid)]
           ELSE UNCHANGED <<promises, waitingFor>>
        /\ UNCHANGED <<phase, segs, memo, reading, content, parentOf, vars, masks, isVisible, rend, output, errors, dataSource, arrays>>

\* the most functions and promises the host wraps around a value
MaxNest == 2

\* the most chunks the host writes into a byte stream
MaxChunks == 2

\* the most arrays and streams the host hands to one view
MaxStreams == 2

\* chunk i of a byte stream: "s<i"
ByteChunk(i) == StrVal(<<"s", "<", DigitChar(i)>>)

\* stream.push(null), and this.emit("error", ...) in the stream's _read
StreamEnded == [t |-> "end"]
StreamFailed == [t |-> "error"]

\* the events of a byte stream of n chunks that then ends, or fails
StreamOf(n, last) ==
    [i \in 1..n |-> ByteChunk(i)]
        \o <<IF last = "end" THEN StreamEnded ELSE StreamFailed>>

\* the wrappers around a bound value, outermost first
Shapes == UNION {[1..k -> {"fn", "promise"}] : k \in 0..MaxNest}

\* the value with the wrappers of shape around it, and the promises with the
\* ones made for it
RECURSIVE Nest(_, _, _, _)
Nest(shape, last, ps, target) ==
    IF shape = <<>> THEN [v |-> last, ps |-> ps]
    ELSE LET inner == Nest(Tail(shape), last, ps, target)
         IN  IF Head(shape) = "fn"
             THEN [v |-> FnVal(inner.v), ps |-> inner.ps]
             ELSE [v |-> PromiseVal(Len(inner.ps) + 1),
                   ps |-> Append(inner.ps, NewPromise("value", target, inner.v))]

\* api.set(data, blockName) with {key: value}, the value a string or a byte
\* stream of n chunks that ends or fails (last), inside functions that return
\* it and promises for it
SetValue(blockName, key, shape, last, n) ==
    LET target == FullName(blockName)
        sid    == Len(arrays) + 1
        inner  == IF last = "str"
                  THEN StrVal(ValueFor(blockName, key))
                  ELSE BytesVal(sid, StreamOf(n, last))
        made   == Nest(shape, inner, promises, target)
    IN  /\ phase = "setup"
        /\ Len(made.ps) <= MaxPromises
        /\ last # "str" => Len(arrays) < MaxStreams
        /\ IF target \in Blocks
           THEN /\ vars' = [vars EXCEPT ![target] = (key :> made.v) @@ @]
                /\ promises' = made.ps
                /\ arrays' = IF last = "str" THEN arrays
                              ELSE Append(arrays, StreamOf(n, last))
           ELSE UNCHANGED <<vars, promises, arrays>>
        /\ UNCHANGED <<phase, segs, memo, reading, content, parentOf, masks, isVisible,
                       waitingFor, dataSource, rend, output, errors>>

\* the most rows of an array the host iterates a block over
MaxRows == 2

\* row i of the host's array: {n2: "r<i>"}
RowValue(i) == StrVal(<<"r", "<", DigitChar(i)>>)
RowsOf(n) == [i \in 1..n |-> ("n2" :> RowValue(i))]

\* Block.setDataSource(raw): the block keeps Promise.resolve(raw) and waits for
\* it.  raw is an array of n rows ("data"), an object stream that will deliver n
\* rows ("stream"), a promise for an array, or something else ("other"); given
\* remembers what the host passed.
SetDataSourceOf(blockName, kind, rows, promised) ==
    LET target == FullName(blockName)
        pid    == Len(promises) + 1
        made   == NewPromise(kind, target, [a |-> Len(arrays) + 1, given |-> rows])
    IN  /\ phase = "setup"
        /\ Len(promises) < MaxPromises
        /\ IF target \in Blocks
           THEN /\ arrays' = Append(arrays, rows)
                /\ promises' = Append(promises,
                                  IF promised THEN made
                                  ELSE [made EXCEPT !.state = "resolved"])
                /\ dataSource' = [dataSource EXCEPT ![target] = pid]
                /\ waitingFor' = [waitingFor EXCEPT ![target] = Append(@, pid)]
           ELSE UNCHANGED <<arrays, promises, dataSource, waitingFor>>
        /\ UNCHANGED <<phase, segs, memo, reading, content, parentOf, vars, masks, isVisible,
                       rend, output, errors>>

SetDataSource(blockName, kind, n, promised) ==
    SetDataSourceOf(blockName, kind, RowsOf(n), promised)

\* api.setIterator(data, blockName) with an array of n rows, or a promise for one
SetIterator(blockName, n, promised) == SetDataSource(blockName, "data", n, promised)

\* api.setIterator(data, blockName) with an object stream of n rows
SetIteratorStream(blockName, n) == SetDataSource(blockName, "stream", n, FALSE)

\* api.setIterator(data, blockName) with a value that is neither an array nor a
\* stream
SetUnsupported(blockName) == SetDataSource(blockName, "other", 0, FALSE)

\* api.setIterator(data, blockName) with an array of two rows, the second of
\* which holds a promise for its n2
SetIteratorLazy(blockName) ==
    LET target == FullName(blockName)
        pid    == Len(promises) + 1
        rows   == <<("n2" :> RowValue(1)), ("n2" :> PromiseVal(pid + 1))>>
        made   == NewPromise("data", target, [a |-> Len(arrays) + 1, given |-> rows])
    IN  /\ phase = "setup"
        /\ Len(promises) + 1 < MaxPromises
        /\ Len(arrays) < MaxStreams
        /\ IF target \in Blocks
           THEN /\ arrays' = Append(arrays, rows)
                /\ promises' = promises \o
                                 <<[made EXCEPT !.state = "resolved"],
                                   NewPromise("value", target, RowValue(2))>>
                /\ dataSource' = [dataSource EXCEPT ![target] = pid]
                /\ waitingFor' = [waitingFor EXCEPT ![target] = Append(@, pid)]
           ELSE UNCHANGED <<arrays, promises, dataSource, waitingFor>>
        /\ UNCHANGED <<phase, segs, memo, reading, content, parentOf, vars, masks, isVisible,
                       rend, output, errors>>

\* api.addMask(name, fn, blockName)
AddMask(name, fn, blockName) ==
    LET target == FullName(blockName)
    IN  /\ phase = "setup"
        /\ IF target \in Blocks
           THEN masks' = [masks EXCEPT ![target] = (name :> fn) @@ @]
           ELSE UNCHANGED masks
        /\ UNCHANGED <<phase, segs, memo, reading, content, parentOf, vars, isVisible, waitingFor, promises, rend, output, errors, dataSource, arrays>>

\* api.removeMask(name, blockName): delete this.masks[name]
RemoveMask(name, blockName) ==
    LET target == FullName(blockName)
    IN  /\ phase = "setup"
        /\ IF target \in Blocks
           THEN masks' = [masks EXCEPT ![target] =
                            [k \in DOMAIN @ \ {name} |-> @[k]]]
           ELSE UNCHANGED masks
        /\ UNCHANGED <<phase, segs, memo, reading, content, parentOf, vars, isVisible, waitingFor, promises, rend, output, errors, dataSource, arrays>>

\* a setVisibility that can only hide
SetVisibilityHides(blockName, visible) ==
    LET target == FullName(blockName)
    IN  /\ phase = "setup"
        /\ IF target \in Blocks
           THEN isVisible' = [isVisible EXCEPT ![target] = FALSE]
           ELSE UNCHANGED isVisible
        /\ UNCHANGED <<phase, segs, memo, reading, content, parentOf, vars, masks, waitingFor, promises, rend, output, errors, dataSource, arrays>>

\* the content of the file the host loads
FileText == <<"f">>

\* api.load(filename, tagName, blockName), once the file is read as text:
\* target.addChild(tagName, content, blockmap) makes a Block, and through its
\* constructor every block nested in the text, each inheriting the vars and
\* masks of the block it is in; it maps them (a name already on the map is
\* mapped anew) and binds the Block to tagName in the target
LoadText(text, tagName, blockName) ==
    LET target == FullName(blockName)
        child  == ChildName(target, tagName)
    IN  /\ phase = "setup"
        /\ IF target \in Blocks
           THEN \E built \in {BuildBlocks(text, child, target)} :
                \E of \in {[n \in {blk.name : blk \in built} |->
                               CHOOSE blk \in built : blk.name = n]} :
                /\ content' = [n \in DOMAIN of |-> of[n].content] @@ content
                /\ parentOf' = [n \in DOMAIN of |-> of[n].parent] @@ parentOf
                /\ vars' = [n \in DOMAIN of |-> BuiltVars(of[n])]
                              @@ [vars EXCEPT ![target] =
                                    (tagName :> BlockVal(child)) @@ @]
                /\ masks' = [n \in DOMAIN of |-> <<>>] @@ masks
                /\ isVisible' = [n \in DOMAIN of |-> TRUE] @@ isVisible
                /\ waitingFor' = [n \in DOMAIN of |-> <<>>] @@ waitingFor
                /\ dataSource' = [n \in DOMAIN of |-> 0] @@ dataSource
           ELSE UNCHANGED <<content, parentOf, vars, masks, isVisible,
                            waitingFor, dataSource>>
        /\ UNCHANGED <<phase, segs, memo, reading, promises, arrays, rend, output, errors>>

\* api.load of the file whose content is FileText
Load(tagName, blockName) == LoadText(FileText, tagName, blockName)

\* api.remove(blockName) and api.restore(blockName): Block.setVisibility
SetVisibility(blockName, visible) ==
    LET target == FullName(blockName)
    IN  /\ phase = "setup"
        /\ IF target \in Blocks
           THEN isVisible' = [isVisible EXCEPT ![target] = visible]
           ELSE UNCHANGED isVisible
        /\ UNCHANGED <<phase, segs, memo, reading, content, parentOf, vars, masks, waitingFor, promises, rend, output, errors, dataSource, arrays>>

Remove(blockName)  == SetVisibility(blockName, FALSE)
Restore(blockName) == SetVisibility(blockName, TRUE)

-----------------------------------------------------------------------------
(* Renderer: a Transform stream fed by a RenderQueue                       *)

\* the root Renderer's path; a block rendered for element n of the Renderer at
\* path r has path r \o <<n>>
RootPath == <<>>

NoElement == [no |-> 0, e |-> Eof]

\* the Renderer that reads the Renderer at path r as an element
Above(r) == SubSeq(r, 1, Len(r) - 1)

\* new Renderer(block): scope names the vars object the block reads (its own, or
\* the row's for a clone made by createRowBlock); piped is whether a consumer
\* has attached its 'data' listener; held is what was pushed before that
NewRenderer(b, scope, piped) ==
    [block |-> b, scope |-> scope, st |-> "constructed", rows |-> 0,
     counter |-> 0, waits |-> <<>>, text |-> <<>>,
     readEnded |-> FALSE, nread |-> 0, buf |-> <<>>,
     busy |-> FALSE, cur |-> NoElement, val |-> Undefined,
     piped |-> piped, held |-> <<>>]

\* api.toStream(): block.render()
ToStream ==
    /\ phase = "setup"
    /\ phase' = "rendering"
    /\ rend' = (RootPath :> NewRenderer(Root, Root, TRUE))
    /\ UNCHANGED <<segs, memo, reading, content, parentOf, vars, masks, isVisible,
                   waitingFor, promises, dataSource, arrays, output, errors>>

\* api.toString(cb): block.render(), drained into a string
toString(withCallback) ==
    /\ phase = "setup"
    /\ phase' = IF withCallback THEN "toStringCb" ELSE "toString"
    /\ rend' = (RootPath :> NewRenderer(Root, Root, TRUE))
    /\ UNCHANGED <<segs, memo, reading, content, parentOf, vars, masks, isVisible,
                   waitingFor, promises, dataSource, arrays, output, errors>>

\* a ready() that also waits for what the blocks nested in the block wait for
ReadySetWithChildren(b) ==
    SelectSeq([p \in DOMAIN promises |-> p],
              LAMBDA p : /\ promises[p].kind # "value"
                         /\ \/ promises[p].block = b
                            \/ parentOf[promises[p].block] = b)

\* Block.ready(): Promise.all over the block's waitingFor as it is at the call
ReadySet(b) == waitingFor[b]

\* whether the Renderer at r renders a clone made by createRowBlock, whose own
\* dataSource is undefined
IsRow(r) == rend[r].scope # rend[r].block

\* whether an 'error' event of the Renderer at r has a listener all the way to
\* the consumer of toStream(): a Renderer made for a block element, or for a row
\* of an object stream, is listened to from its construction; one made for a
\* row of an array only once it is piped
RECURSIVE Heard(_)
Heard(r) ==
    \/ r = RootPath
    \/ /\ \/ rend[r].piped
          \/ IsRow(r) /\ promises[dataSource[rend[r].block]].kind = "stream"
       /\ Heard(Above(r))

\* this.emit("error", e) in the Renderer at r: with no listener the event
\* reaches nobody
Raised(errs, r, entry) == IF Heard(r) THEN Append(errs, entry) ELSE errs

\* the constructor's callback, once the block's data source has resolved:
\* without one, block.ready(); with an array, a Readable that shifts the rows;
\* with an object stream, the stream piped through processDataStream; with
\* anything else, an 'error' event
Start(r) ==
    LET b == rend[r].block
    IN  /\ rend[r].st = "constructed"
        /\ IF IsRow(r) \/ dataSource[b] = 0
           THEN /\ rend' = [rend EXCEPT ![r].st = "waiting",
                                        ![r].waits = ReadySet(b)]
                /\ UNCHANGED errors
           ELSE /\ promises[dataSource[b]].state = "resolved"
                /\ IF promises[dataSource[b]].kind = "other"
                   THEN /\ rend' = [rend EXCEPT ![r].st = "errored"]
                        /\ errors' = Raised(errors, r, [src |-> r, block |-> b])
                   ELSE /\ rend' = [rend EXCEPT
                                      ![r].st = "flowing",
                                      ![r].rows = promises[dataSource[b]].payload.a]
                        /\ UNCHANGED errors
        /\ UNCHANGED <<phase, segs, memo, reading, content, parentOf, vars, masks, isVisible,
                       waitingFor, promises, dataSource, arrays, output>>

\* Promise.race in the place of Promise.all: one resolved promise is enough
AnyResolved(ps, waits) ==
    waits = <<>> \/ \E i \in DOMAIN waits : ps[waits[i]].state = "resolved"

\* Promise.all: every promise of the list has resolved
AllResolved(ps, waits) ==
    \A i \in DOMAIN waits : ps[waits[i]].state = "resolved"

\* block.ready() resolved: new RenderQueue(templateText), piped into the Renderer
Ready(r) ==
    /\ rend[r].st = "waiting"
    /\ AllResolved(promises, rend[r].waits)
    /\ rend' = [rend EXCEPT ![r].st = "flowing",
                            ![r].text = content[rend[r].block]]
    /\ UNCHANGED <<phase, segs, memo, reading, content, parentOf, vars, masks, isVisible,
                   waitingFor, promises, dataSource, arrays, output, errors>>

\* block.ready() rejected, because a promise of the wait-set did:
\* .catch(e => this.emit("error", e))
ReadyRejected(r) ==
    /\ rend[r].st = "waiting"
    /\ \E i \in DOMAIN rend[r].waits : promises[rend[r].waits[i]].state = "rejected"
    /\ rend' = [rend EXCEPT ![r].st = "errored"]
    /\ errors' = Raised(errors, r, [src |-> r, block |-> rend[r].block])
    /\ UNCHANGED <<phase, segs, memo, reading, content, parentOf, vars, masks, isVisible,
                   waitingFor, promises, dataSource, arrays, output>>

\* the elements of one _read call, numbered in the order they are pushed
Numbered(pushed, n) == [i \in DOMAIN pushed |-> [no |-> n + i, e |-> pushed[i]]]

CanRead(r) == rend[r].st = "flowing" /\ ~rend[r].readEnded

\* RenderQueue._read, and the pipe writing what it pushed to the Renderer
Read(r) ==
    /\ CanRead(r)
    /\ rend[r].rows = 0
    /\ \E got \in {RenderQueueRead(rend[r].text)} :
          rend' = [rend EXCEPT
                     ![r].text = got.rest,
                     ![r].readEnded = (got.pushed = <<Eof>>),
                     ![r].nread = @ + Len(got.pushed),
                     ![r].buf = @ \o Numbered(got.pushed, rend[r].nread)]
    /\ UNCHANGED <<phase, segs, memo, reading, content, parentOf, vars, masks, isVisible,
                   waitingFor, promises, dataSource, arrays, output, errors>>

\* a Renderer pushed into the queue of the rows
RowElement == [Eof EXCEPT !.is = "stream"]

\* the vars object of the clone that renders the row piped at path r
RowScope(r) == "row" \o ToString(r)

\* const row = data.shift()
Shift(data) == [row |-> Head(data), rest |-> Tail(data)]

\* whether the rows of the Renderer at r arrive from an object stream, piped
\* through processDataStream, and not from an array
StreamFed(r) ==
    /\ rend[r].rows # 0
    /\ promises[dataSource[rend[r].block]].kind = "stream"

\* the _read of the Readable over an array data source, or the _transform of
\* processDataStream for a row arriving from an object stream: no row left ends
\* the queue; otherwise the next row is shifted off the host's array, numbered,
\* assigned to the vars of a clone of the block, and the clone's Renderer pushed
ReadRow(r) ==
    LET a    == rend[r].rows
        b    == rend[r].block
        no   == rend[r].nread + 1
        made == r \o <<no>>
    IN  /\ CanRead(r)
        /\ a # 0
        /\ IF arrays[a] = <<>>
           THEN /\ rend' = [rend EXCEPT ![r].readEnded = TRUE,
                                        ![r].nread = no,
                                        ![r].buf = Append(@, [no |-> no, e |-> Eof])]
                /\ UNCHANGED <<arrays, vars, parentOf>>
           ELSE /\ arrays' = [arrays EXCEPT ![a] = Shift(@).rest]
                /\ vars' = (RowScope(made) :>
                              (("talismanRowNum" :> NumVal(rend[r].counter))
                                  @@ Shift(arrays[a]).row)) @@ vars
                /\ parentOf' = (RowScope(made) :> b) @@ parentOf
                /\ rend' = (made :> NewRenderer(b, RowScope(made), FALSE))
                             @@ [rend EXCEPT
                                   ![r].counter = @ + 1,
                                   ![r].nread = no,
                                   ![r].buf = Append(@, [no |-> no, e |-> RowElement])]
        /\ UNCHANGED <<phase, segs, memo, reading, content, masks, isVisible,
                       waitingFor, promises, dataSource, output, errors>>

\* a Renderer that transforms whichever written chunk is ready
TransformAnyChunk(buf) == DOMAIN buf

\* a Transform stream hands _transform the oldest written chunk
TransformChoices(buf) == {1}

Without(buf, i) == SubSeq(buf, 1, i - 1) \o SubSeq(buf, i + 1, Len(buf))

\* the value processElement starts from: the text itself, the piped Renderer, or
\* the tag's value
FirstValue(r, el) ==
    CASE el.e.is = "text"   -> StrVal(el.e.text)
      [] el.e.is = "stream" -> [t |-> "row", r |-> r \o <<el.no>>]
      [] OTHER -> TagValue(vars, parentOf, rend[r].scope, el.e)

\* Renderer._transform up to the first suspension: the end of the queue ends the
\* stream, a hidden block pushes null, otherwise processElement reads the value.
\* The pipe tokenizes in one synchronous loop, so no chunk is transformed while
\* the queue can still be read; the rows of an object stream arrive over time.
Transform(r) ==
    /\ rend[r].st = "flowing"
    /\ ~CanRead(r) \/ StreamFed(r)
    /\ ~rend[r].busy
    /\ \E i \in TransformChoices(rend[r].buf) \cap DOMAIN rend[r].buf :
       \E el \in {rend[r].buf[i]} :
       \E v \in {IF el.e.is = "eof" THEN Undefined ELSE FirstValue(r, el)} :
          IF el.e.is = "eof" \/ ~isVisible[rend[r].block]
          THEN /\ rend' = [rend EXCEPT ![r].st = "ended"]
               /\ UNCHANGED errors
          ELSE IF v = Thrown
          THEN /\ rend' = [rend EXCEPT ![r].st = "errored"]
               /\ errors' = Raised(errors, r, [src |-> r \o <<el.no>>,
                                            block |-> rend[r].block])
          ELSE /\ rend' = [rend EXCEPT ![r].buf = Without(@, i),
                                       ![r].busy = TRUE,
                                       ![r].cur = el,
                                       ![r].val = v]
               /\ UNCHANGED errors
    /\ UNCHANGED <<phase, segs, memo, reading, content, parentOf, vars, masks, isVisible,
                   waitingFor, promises, dataSource, arrays, output>>

\* a Renderer that escapes what processElement returned, and again on the push
EscapedTwice(e, v) ==
    IF e.escape = TRUE /\ isStringOrBuffer(v)
    THEN StrVal(htmlescape(htmlescape(v.s)))
    ELSE v

\* "If the data must be escaped, escape it"
Escaped(e, v) ==
    IF e.escape = TRUE /\ isStringOrBuffer(v) THEN StrVal(htmlescape(v.s)) ELSE v

\* the string _transform pushes for a value: escaped, then masked, then toString
Rendered(b, e, v) ==
    LET esc == Escaped(e, v)
    IN  IF e.masks # <<>> /\ esc.t = "str"
        THEN ApplyMasks(masks, parentOf, b, e.masks, esc.s)
        ELSE ToChars(esc)

Chunk(r, el, b, v, data) ==
    [src |-> r \o <<el.no>>, block |-> b, e |-> el.e, val |-> v, data |-> data]

\* a push that always reaches the consumer of toStream()
SinkConsumer(rd, r) == <<>>

\* where a chunk pushed by the Renderer at r comes to rest: the nearest Renderer,
\* from r upwards, that nothing listens to yet (<<r>>), or the consumer of
\* toStream() (<<>>)
RECURSIVE Sink(_, _)
Sink(rd, r) ==
    IF ~rd[r].piped THEN <<r>>
    ELSE IF r = RootPath THEN <<>>
    ELSE Sink(rd, Above(r))

\* this.push(chunk), through the 'data' listeners of the Renderers above
Pushed(rd, out, r, chunks) ==
    LET to == Sink(rd, r)
    IN  IF to = <<>>
        THEN [rend |-> rd, output |-> out \o chunks]
        ELSE [rend |-> [rd EXCEPT ![to[1]].held = @ \o chunks], output |-> out]

\* the callback of processElement in _transform, once the value has settled: an
\* empty value moves on; a block is rendered and piped in place; a byte stream
\* gets its 'end', 'error' and 'data' listeners; a Renderer of the queue is
\* piped in place, and what it held flows first; anything else is pushed
Emit(r) ==
    /\ rend[r].st = "flowing"
    /\ rend[r].busy
    /\ \E el \in {rend[r].cur} :
       \E b \in {rend[r].block} :
       \E data \in {Awaited(promises, rend[r].val)} :
          /\ data.t \in {"undefined", "str", "num", "block", "row", "bytes"}
          /\ IF isNullOrUndefined(data) \/ data = StrVal(<<>>)
             THEN /\ rend' = [rend EXCEPT ![r].busy = FALSE]
                  /\ UNCHANGED output
             ELSE IF data.t = "block"
             THEN /\ rend' = ((r \o <<el.no>>) :> NewRenderer(data.b, data.b, TRUE))
                                @@ [rend EXCEPT ![r].val = [t |-> "stream",
                                                            r |-> r \o <<el.no>>]]
                  /\ UNCHANGED output
             ELSE IF data.t = "bytes"
             THEN /\ rend' = [rend EXCEPT ![r].val = [t |-> "piping", a |-> data.a]]
                  /\ UNCHANGED output
             ELSE IF data.t = "row"
             THEN \E on \in {[rend EXCEPT
                                ![r].val = [t |-> "stream", r |-> data.r],
                                ![data.r].piped = TRUE,
                                ![data.r].held = <<>>]} :
                  \E got \in {Pushed(on, output, r, rend[data.r].held)} :
                     /\ rend' = got.rend
                     /\ output' = got.output
             ELSE \E got \in {Pushed([rend EXCEPT ![r].busy = FALSE], output, r,
                                     <<Chunk(r, el, b, data,
                                             Rendered(b, el.e, data))>>)} :
                     /\ rend' = got.rend
                     /\ output' = got.output
    /\ UNCHANGED <<phase, segs, memo, reading, content, parentOf, vars, masks, isVisible,
                   waitingFor, promises, dataSource, arrays, errors>>

\* processElement rejected, because the promise the element resolved to did:
\* .catch(e => next(e)), and the Transform emits 'error'
EmitRejected(r) ==
    /\ rend[r].st = "flowing"
    /\ rend[r].busy
    /\ \E data \in {Awaited(promises, rend[r].val)} :
          /\ data.t = "promise"
          /\ promises[data.p].state = "rejected"
    /\ rend' = [rend EXCEPT ![r].st = "errored"]
    /\ errors' = Raised(errors, r, [src |-> r \o <<rend[r].cur.no>>,
                                 block |-> rend[r].block])
    /\ UNCHANGED <<phase, segs, memo, reading, content, parentOf, vars, masks, isVisible,
                   waitingFor, promises, dataSource, arrays, output>>

\* a Renderer that pipes the child into itself, so that the child's end is its own
ChildEndEnds(r) ==
    /\ rend[r].st = "flowing"
    /\ rend[r].busy
    /\ rend[r].val.t = "stream"
    /\ rend[rend[r].val.r].st = "ended"
    /\ rend' = [rend EXCEPT ![r].st = "ended"]
    /\ UNCHANGED <<phase, segs, memo, reading, content, parentOf, vars, masks, isVisible,
                   waitingFor, promises, dataSource, arrays, output, errors>>

\* data.on("end", () => next()): the piped Renderer has ended
ChildEnd(r) ==
    /\ rend[r].st = "flowing"
    /\ rend[r].busy
    /\ rend[r].val.t = "stream"
    /\ rend[rend[r].val.r].st = "ended"
    /\ rend' = [rend EXCEPT ![r].busy = FALSE]
    /\ UNCHANGED <<phase, segs, memo, reading, content, parentOf, vars, masks, isVisible,
                   waitingFor, promises, dataSource, arrays, output, errors>>

\* the Renderers whose listeners are on the byte stream at a of arrays
Listeners(a) ==
    {r \in DOMAIN rend : /\ rend[r].st = "flowing"
                         /\ rend[r].busy
                         /\ rend[r].val = [t |-> "piping", a |-> a]}

\* a Renderer that escapes the chunks of a stream variable
PipedEscaped(chunk) == htmlescape(chunk.s)

\* chunk => this.push(chunk): the chunk as it came
Piped(chunk) == chunk.s

\* a 'data' event of a byte stream, in each Renderer of rs
RECURSIVE Delivered(_, _, _, _)
Delivered(rd, out, rs, chunk) ==
    IF rs = {} THEN [rend |-> rd, output |-> out]
    ELSE LET r   == CHOOSE x \in rs : TRUE
             got == Pushed(rd, out, r,
                           <<Chunk(r, rd[r].cur, rd[r].block, chunk, Piped(chunk))>>)
         IN  Delivered(got.rend, got.output, rs \ {r}, chunk)

\* an 'error' event of a byte stream, in each Renderer of rs:
\* e => this.emit("error", e)
RECURSIVE Failed(_, _)
Failed(errs, rs) ==
    IF rs = {} THEN errs
    ELSE LET r == CHOOSE x \in rs : TRUE
         IN  Failed(Raised(errs, r, [src |-> r \o <<rend[r].cur.no>>,
                                     block |-> rend[r].block]),
                    rs \ {r})

\* a byte stream that is listened to flows: its next chunk is pushed by every
\* Renderer listening
StreamData(a) ==
    /\ Listeners(a) # {}
    /\ arrays[a] # <<>>
    /\ Head(arrays[a]).t = "str"
    /\ \E got \in {Delivered(rend, output, Listeners(a), Head(arrays[a]))} :
          /\ rend' = got.rend
          /\ output' = got.output
    /\ arrays' = [arrays EXCEPT ![a] = Tail(@)]
    /\ UNCHANGED <<phase, segs, memo, reading, content, parentOf, vars, masks, isVisible,
                   waitingFor, promises, dataSource, errors>>

\* data.on("end", () => next()): the byte stream has ended
StreamEnd(a) ==
    /\ Listeners(a) # {}
    /\ arrays[a] # <<>>
    /\ Head(arrays[a]) = StreamEnded
    /\ rend' = [r \in DOMAIN rend |->
                  IF r \in Listeners(a) THEN [rend[r] EXCEPT !.busy = FALSE]
                  ELSE rend[r]]
    /\ arrays' = [arrays EXCEPT ![a] = <<>>]
    /\ UNCHANGED <<phase, segs, memo, reading, content, parentOf, vars, masks, isVisible,
                   waitingFor, promises, dataSource, output, errors>>

\* data.on("error", e => this.emit("error", e)): the byte stream has failed, and
\* next is never called
StreamError(a) ==
    /\ Listeners(a) # {}
    /\ arrays[a] # <<>>
    /\ Head(arrays[a]) = StreamFailed
    /\ rend' = [r \in DOMAIN rend |->
                  IF r \in Listeners(a) THEN [rend[r] EXCEPT !.st = "errored"]
                  ELSE rend[r]]
    /\ errors' = Failed(errors, Listeners(a))
    /\ arrays' = [arrays EXCEPT ![a] = <<>>]
    /\ UNCHANGED <<phase, segs, memo, reading, content, parentOf, vars, masks, isVisible,
                   waitingFor, promises, dataSource, output>>

\* a promise the host handed over resolves; a promise for key-values is assigned
\* to its block's vars by the callback of Block.setVariables
Settle(p) ==
    /\ p \in DOMAIN promises
    /\ promises[p].state = "pending"
    /\ promises' = [promises EXCEPT
                      ![p].state = "resolved",
                      ![p].at = 1 + Cardinality({q \in DOMAIN promises :
                                                   promises[q].at > 0})]
    /\ vars' = IF promises[p].kind = "vars"
               THEN [vars EXCEPT ![promises[p].block] = promises[p].payload @@ @]
               ELSE vars
    /\ UNCHANGED <<phase, segs, memo, reading, content, parentOf, masks, isVisible, waitingFor, rend, output, errors, dataSource, arrays>>

\* a promise the host handed over rejects: nothing is assigned
Reject(p) ==
    /\ p \in DOMAIN promises
    /\ promises[p].state = "pending"
    /\ promises' = [promises EXCEPT
                      ![p].state = "rejected",
                      ![p].at = 1 + Cardinality({q \in DOMAIN promises :
                                                   promises[q].at > 0})]
    /\ UNCHANGED <<phase, segs, memo, reading, content, parentOf, vars, masks, isVisible,
                   waitingFor, rend, output, errors, dataSource, arrays>>

-----------------------------------------------------------------------------
(* loadFile: the memo of file contents                                     *)

\* the most calls of loadFile
MaxLoads == 3

\* the file names the host passes: two spellings of one file, and another file
FileNames == {<<"f">>, <<".", "/", "f">>, <<"g">>}

\* path.resolve(templateRoot || "", filename), with no template root set: a
\* leading "./" names the same directory
RECURSIVE Resolved(_)
Resolved(filename) ==
    IF Len(filename) > 2 /\ SubSeq(filename, 1, 2) = <<".", "/">>
    THEN Resolved(SubSeq(filename, 3, Len(filename)))
    ELSE filename

\* what readFile finds at a path
OnDisk(fullpath) == <<"<">> \o fullpath

\* loadFile(filename): a path the memo holds resolves with the content kept;
\* for any other path readFile is called
LoadFile(filename) ==
    LET fullpath == Resolved(filename)
    IN  /\ Len(reading) < MaxLoads
        /\ reading' = Append(reading,
                          IF Str(fullpath) \in DOMAIN memo
                          THEN [path |-> fullpath, state |-> "resolved",
                                content |-> memo[Str(fullpath)], disk |-> FALSE]
                          ELSE [path |-> fullpath, state |-> "reading",
                                content |-> <<>>, disk |-> TRUE])
        /\ UNCHANGED <<phase, segs, content, parentOf, vars, masks, isVisible,
                       waitingFor, promises, dataSource, arrays, rend, output,
                       errors, memo>>

\* the callback of readFile with the content: memo.set(fullpath, content) and
\* resolve(content)
ReadFileDone(i) ==
    /\ reading[i].state = "reading"
    /\ \E text \in {OnDisk(reading[i].path)} :
          /\ memo' = (Str(reading[i].path) :> text) @@ memo
          /\ reading' = [reading EXCEPT ![i].state = "resolved",
                                        ![i].content = text]
    /\ UNCHANGED <<phase, segs, content, parentOf, vars, masks, isVisible,
                   waitingFor, promises, dataSource, arrays, rend, output,
                   errors>>

\* the callback of readFile with an error: reject(err), and nothing is kept
ReadFileFailed(i) ==
    /\ reading[i].state = "reading"
    /\ reading' = [reading EXCEPT ![i].state = "rejected"]
    /\ UNCHANGED <<phase, segs, content, parentOf, vars, masks, isVisible,
                   waitingFor, promises, dataSource, arrays, rend, output,
                   errors, memo>>

-----------------------------------------------------------------------------
(* Templates                                                               *)

Chars1(a) == <<a>>
TagOf(name) == <<"{">> \o name \o <<"}">>
OpenOf(name) == <<"{","#">> \o name \o <<"}">>
CloseOf(name) == <<"{","/">> \o name \o <<"}">>

\* "{n1},{#b1}{n2}{n1}{/b1}{n2}"
TemplateMain ==
    <<TagOf(<<"n","1">>), <<",">>, OpenOf(<<"b","1">>), TagOf(<<"n","2">>),
      TagOf(<<"n","1">>), CloseOf(<<"b","1">>), TagOf(<<"n","2">>)>>

\* createTemplate(templateString) resolved: the blocks are parsed and mapped, the
\* root's masks hold "escape", nothing is set, hidden or awaited
Created(t) ==
    \E built \in {BuildBlocks(Flatten(t), Root, NoBlock)} :
    \E of \in {[n \in {blk.name : blk \in built} |->
                   CHOOSE blk \in built : blk.name = n]} :
        /\ segs = t
        /\ phase = "setup"
        /\ content = [n \in DOMAIN of |-> of[n].content]
        /\ parentOf = [n \in DOMAIN of |-> of[n].parent]
        /\ vars = [n \in DOMAIN of |-> BuiltVars(of[n])]
        /\ masks = [n \in DOMAIN of |->
                      IF n = Root THEN ("escape" :> "htmlescape") ELSE <<>>]
        /\ isVisible = [n \in DOMAIN of |-> TRUE]
        /\ waitingFor = [n \in DOMAIN of |-> <<>>]
        /\ promises = <<>>
        /\ dataSource = [n \in DOMAIN of |-> 0]
        /\ arrays = <<>>
        /\ rend = <<>>
        /\ output = <<>>
        /\ errors = <<>>
        /\ memo = <<>>
        /\ reading = <<>>

Init == Created(TemplateMain)

\* the block names and keys the host uses; "zz" names no block
BlockArgs == {"", "b1", "zz"}
Keys == {"n1", "n2"}

Next ==
    \/ \E bn \in {"", "zz"}, k \in Keys, pr \in BOOLEAN : Set(bn, k, pr)
    \/ \E bn \in {"b1", "zz"} : SetPromised(bn, "n2")
    \/ \E bn \in BlockArgs : WaitUntil(bn)
    \/ \E p \in DOMAIN promises : Settle(p)
    \/ ToStream
    \/ \E r \in DOMAIN rend : Start(r)
    \/ \E r \in DOMAIN rend : Ready(r)
    \/ \E r \in DOMAIN rend : Read(r)
    \/ \E r \in DOMAIN rend : Transform(r)
    \/ \E r \in DOMAIN rend : Emit(r)
    \/ \E r \in DOMAIN rend : ChildEnd(r)

Spec == Init /\ [][Next]_vars_all

-----------------------------------------------------------------------------
(* The view with a block iterated over an array                            *)

NextRows ==
    \/ \E bn \in {"b1", "zz"}, n \in 0..MaxRows, pr \in BOOLEAN :
          SetIterator(bn, n, pr)
    \/ \E n \in 0..MaxRows : SetIteratorStream("b1", n)
    \/ \E bn \in {"", "b1"} : WaitUntil(bn)
    \/ SetPromised("b1", "n2")
    \/ \E p \in DOMAIN promises : Settle(p)
    \/ ToStream
    \/ \E r \in DOMAIN rend : Start(r)
    \/ \E r \in DOMAIN rend : Ready(r)
    \/ \E r \in DOMAIN rend : Read(r)
    \/ \E r \in DOMAIN rend : ReadRow(r)
    \/ \E r \in DOMAIN rend : Transform(r)
    \/ \E r \in DOMAIN rend : Emit(r)
    \/ \E r \in DOMAIN rend : ChildEnd(r)

SpecRows == Init /\ [][NextRows]_vars_all

-----------------------------------------------------------------------------
(* Views of short templates written from braces, names and plain text      *)

\* the most segments a template is written from
MaxSegs == 3

\* every sequence of 1..n members of S
SeqsUpTo(S, n) == UNION {[1..k -> S] : k \in 1..n}

Nm == <<"n","m">>
Opens == {<<"{">>, <<"{","{">>}
Closes == {<<"}">>, <<"}","}">>}
PlainSegs == {<<"a">>, <<"-","n">>, <<"n","-">>}
TextSegs == Opens \cup Closes \cup PlainSegs \cup {Nm}

\* the most plain segments before, and after, a tag in a template
MaxPad == 1

\* a group of braces around the name nm, between plain segments
Framed(n) ==
    {pre \o <<o, Nm, c>> \o post :
        pre \in SeqsUpTo(PlainSegs, n) \cup {<<>>},
        post \in SeqsUpTo(PlainSegs, n) \cup {<<>>},
        o \in Opens, c \in Closes}

TextTemplates == SeqsUpTo(TextSegs, MaxSegs) \cup Framed(MaxPad)

InitText == \E t \in TextTemplates : Created(t)

NextText ==
    \/ Set("", "nm", FALSE)
    \/ ToStream
    \/ \E r \in DOMAIN rend : Start(r)
    \/ \E r \in DOMAIN rend : Ready(r)
    \/ \E r \in DOMAIN rend : Read(r)
    \/ \E r \in DOMAIN rend : Transform(r)
    \/ \E r \in DOMAIN rend : Emit(r)

SpecText == InitText /\ [][NextText]_vars_all

-----------------------------------------------------------------------------
(* Views of short templates written with comments and CDATA                *)

\* the most segments a template with comments is written from
MaxMarks == 4

\* the most segments inside a CDATA span
MaxInner == 2

NmTag == TagOf(Nm)
MarkSegs == {CommentOpen, CommentClose, <<"\n">>, <<"a">>, NmTag}

\* {#bb}a{/bb}
BlockText == OpenOf(<<"b","b">>) \o <<"a">> \o CloseOf(<<"b","b">>)
InnerSegs == {NmTag, CommentOpen, CommentClose, BlockText, <<"<">>}

\* one CDATA span, with or without the plain text a before and after it
CdataFramed(n) ==
    {pre \o <<CdataOpen>> \o inner \o <<CdataClose>> \o post :
        pre \in {<<>>, <<<<"a">>>>},
        post \in {<<>>, <<<<"a">>>>},
        inner \in SeqsUpTo(InnerSegs, n) \cup {<<>>}}

MarkTemplates == SeqsUpTo(MarkSegs, MaxMarks) \cup CdataFramed(MaxInner)

InitMarks == \E t \in MarkTemplates : Created(t)

NextMarks ==
    \/ Set("", "nm", FALSE)
    \/ ToStream
    \/ \E r \in DOMAIN rend : Start(r)
    \/ \E r \in DOMAIN rend : Ready(r)
    \/ \E r \in DOMAIN rend : Read(r)
    \/ \E r \in DOMAIN rend : Transform(r)
    \/ \E r \in DOMAIN rend : Emit(r)

SpecMarks == InitMarks /\ [][NextMarks]_vars_all

-----------------------------------------------------------------------------
(* The view of a template with nested and sibling blocks                   *)

\* "{nm|mk}{b1.nm}{#b1}{nm|mk}{#b3}{nm|mk}{/b3}{/b1}{#b2}{nm|mk}{b1.nm}{/b2}"
TemplateScope ==
    <<TagOf(<<"n","m","|","m","k">>), TagOf(<<"b","1",".","n","m">>),
      OpenOf(<<"b","1">>), TagOf(<<"n","m","|","m","k">>),
      OpenOf(<<"b","3">>), TagOf(<<"n","m","|","m","k">>), CloseOf(<<"b","3">>),
      CloseOf(<<"b","1">>),
      OpenOf(<<"b","2">>), TagOf(<<"n","m","|","m","k">>),
      TagOf(<<"b","1",".","n","m">>), CloseOf(<<"b","2">>)>>

InitScope == Created(TemplateScope)

\* the block names the host passes; "zz" names no block
ScopeArgs == {"", "b1", "b1:b3", "b2", "zz"}

NextScope ==
    \/ \E bn \in ScopeArgs : Set(bn, "nm", FALSE)
    \/ \E bn \in ScopeArgs, fn \in {"reverse", "bold"} : AddMask("mk", fn, bn)
    \/ \E bn \in ScopeArgs : RemoveMask("mk", bn)
    \/ ToStream
    \/ \E r \in DOMAIN rend : Start(r)
    \/ \E r \in DOMAIN rend : Ready(r)
    \/ \E r \in DOMAIN rend : Read(r)
    \/ \E r \in DOMAIN rend : Transform(r)
    \/ \E r \in DOMAIN rend : Emit(r)
    \/ \E r \in DOMAIN rend : ChildEnd(r)

SpecScope == InitScope /\ [][NextScope]_vars_all

-----------------------------------------------------------------------------
(* The view of a template whose blocks the host removes and restores       *)

\* "a{n1}{#b1}{n1}{#b3}{n2}.{/b3}-{/b1}{n2}"
TemplateVis ==
    <<Chars1("a"), TagOf(<<"n","1">>), OpenOf(<<"b","1">>), TagOf(<<"n","1">>),
      OpenOf(<<"b","3">>), TagOf(<<"n","2">>), Chars1("."), CloseOf(<<"b","3">>),
      Chars1("-"), CloseOf(<<"b","1">>), TagOf(<<"n","2">>)>>

InitVis == Created(TemplateVis)

\* the block names the host passes; "zz" names no block
VisArgs == {"", "b1", "b1:b3", "zz"}

NextVis ==
    \/ \E k \in Keys : Set("", k, FALSE)
    \/ Set("b1", "n1", TRUE)
    \/ \E bn \in VisArgs : Remove(bn)
    \/ \E bn \in VisArgs : Restore(bn)
    \/ WaitUntil("b1")
    \/ SetUnsupported("b1")
    \/ \E p \in DOMAIN promises : Settle(p)
    \/ \E p \in DOMAIN promises : Reject(p)
    \/ ToStream
    \/ \E r \in DOMAIN rend : Start(r)
    \/ \E r \in DOMAIN rend : Ready(r)
    \/ \E r \in DOMAIN rend : ReadyRejected(r)
    \/ \E r \in DOMAIN rend : Read(r)
    \/ \E r \in DOMAIN rend : Transform(r)
    \/ \E r \in DOMAIN rend : Emit(r)
    \/ \E r \in DOMAIN rend : EmitRejected(r)
    \/ \E r \in DOMAIN rend : ChildEnd(r)

SpecVis == InitVis /\ [][NextVis]_vars_all

-----------------------------------------------------------------------------
(* The view, called with the name of a block and with a name of no block   *)

\* "{nm|mk}{#b1}{nm|mk}{/b1}"
TemplateApi ==
    <<TagOf(<<"n","m","|","m","k">>), OpenOf(<<"b","1">>),
      TagOf(<<"n","m","|","m","k">>), CloseOf(<<"b","1">>)>>

InitApi == Created(TemplateApi)

\* the block names the host passes; "zz" names no block
ApiArgs == {"b1", "zz"}

NextApi ==
    \/ \E bn \in ApiArgs : Set(bn, "nm", FALSE)
    \/ \E bn \in ApiArgs : SetIterator(bn, 1, FALSE)
    \/ \E bn \in ApiArgs : Remove(bn)
    \/ \E bn \in ApiArgs : Restore(bn)
    \/ \E bn \in ApiArgs : AddMask("mk", "reverse", bn)
    \/ \E bn \in ApiArgs : RemoveMask("mk", bn)
    \/ \E bn \in ApiArgs : WaitUntil(bn)
    \/ \E bn \in ApiArgs : Load("nm", bn)
    \/ \E p \in DOMAIN promises : Settle(p)
    \/ ToStream
    \/ \E r \in DOMAIN rend : Start(r)
    \/ \E r \in DOMAIN rend : Ready(r)
    \/ \E r \in DOMAIN rend : Read(r)
    \/ \E r \in DOMAIN rend : ReadRow(r)
    \/ \E r \in DOMAIN rend : Transform(r)
    \/ \E r \in DOMAIN rend : Emit(r)
    \/ \E r \in DOMAIN rend : ChildEnd(r)

SpecApi == InitApi /\ [][NextApi]_vars_all

-----------------------------------------------------------------------------
(* The view of a template whose placeholders have a chain of masks         *)

MaskChain == <<"n","m","|","m","1","|","m","2","|","m","3">>

\* "{{nm|m1|m2|m3}}{nm|m1|m2|m3}"
TemplateMask == <<<<"{">> \o TagOf(MaskChain) \o <<"}">>, TagOf(MaskChain)>>

InitMask == Created(TemplateMask)

MaskNames == {"m1", "m2", "m3"}

NextMask ==
    \/ Set("", "nm", FALSE)
    \/ \E m \in MaskNames, fn \in {"reverse", "bold"} : AddMask(m, fn, "")
    \/ \E m \in MaskNames : RemoveMask(m, "")
    \/ ToStream
    \/ \E r \in DOMAIN rend : Start(r)
    \/ \E r \in DOMAIN rend : Ready(r)
    \/ \E r \in DOMAIN rend : Read(r)
    \/ \E r \in DOMAIN rend : Transform(r)
    \/ \E r \in DOMAIN rend : Emit(r)

SpecMask == InitMask /\ [][NextMask]_vars_all

-----------------------------------------------------------------------------
(* The view with a value inside functions and promises, or a byte stream   *)

\* "a{#b1}{n2}{/b1}{nm|mk}b"
TemplateValue ==
    <<Chars1("a"), OpenOf(<<"b","1">>), TagOf(<<"n","2">>), CloseOf(<<"b","1">>),
      TagOf(<<"n","m","|","m","k">>), Chars1("b")>>

InitValue == Created(TemplateValue)

\* the host binds nm once
NextValue ==
    \/ \E shape \in Shapes, last \in {"str", "end", "error"}, n \in 0..MaxChunks :
          /\ "nm" \notin DOMAIN vars[Root]
          /\ last = "str" => n = 0
          /\ SetValue("", "nm", shape, last, n)
    \/ AddMask("mk", "reverse", "")
    \/ SetIteratorLazy("b1")
    \/ \E p \in DOMAIN promises : Settle(p)
    \/ \E p \in DOMAIN promises : Reject(p)
    \/ ToStream
    \/ \E cb \in BOOLEAN : toString(cb)
    \/ \E r \in DOMAIN rend : Start(r)
    \/ \E r \in DOMAIN rend : Ready(r)
    \/ \E r \in DOMAIN rend : Read(r)
    \/ \E r \in DOMAIN rend : ReadRow(r)
    \/ \E r \in DOMAIN rend : Transform(r)
    \/ \E r \in DOMAIN rend : Emit(r)
    \/ \E r \in DOMAIN rend : EmitRejected(r)
    \/ \E r \in DOMAIN rend : ChildEnd(r)
    \/ \E a \in DOMAIN arrays : StreamData(a)
    \/ \E a \in DOMAIN arrays : StreamEnd(a)
    \/ \E a \in DOMAIN arrays : StreamError(a)

SpecValue == InitValue /\ [][NextValue]_vars_all

-----------------------------------------------------------------------------
(* The same view, with nm a promise that may reject or a stream that may   *)
(* fail, rendered by an event loop that runs whatever can run              *)

NextFail ==
    \/ \E shape \in Shapes, last \in {"str", "end", "error"}, n \in 0..MaxChunks :
          /\ "nm" \notin DOMAIN vars[Root]
          /\ Len(shape) < MaxNest
          /\ last = "str" => n = 0
          /\ SetValue("", "nm", shape, last, n)
    \/ \E p \in DOMAIN promises : Settle(p)
    \/ \E p \in DOMAIN promises : Reject(p)
    \/ ToStream
    \/ \E r \in DOMAIN rend : Start(r)
    \/ \E r \in DOMAIN rend : Ready(r)
    \/ \E r \in DOMAIN rend : Read(r)
    \/ \E r \in DOMAIN rend : Transform(r)
    \/ \E r \in DOMAIN rend : Emit(r)
    \/ \E r \in DOMAIN rend : EmitRejected(r)
    \/ \E r \in DOMAIN rend : ChildEnd(r)
    \/ \E a \in DOMAIN arrays : StreamData(a)
    \/ \E a \in DOMAIN arrays : StreamEnd(a)
    \/ \E a \in DOMAIN arrays : StreamError(a)

\* a step of a Renderer or of a byte stream, other than reading the queue
RenderStep ==
    \/ \E r \in DOMAIN rend : Start(r)
    \/ \E r \in DOMAIN rend : Ready(r)
    \/ \E r \in DOMAIN rend : Transform(r)
    \/ \E r \in DOMAIN rend : Emit(r)
    \/ \E r \in DOMAIN rend : EmitRejected(r)
    \/ \E r \in DOMAIN rend : ChildEnd(r)
    \/ \E a \in DOMAIN arrays : StreamData(a)
    \/ \E a \in DOMAIN arrays : StreamEnd(a)
    \/ \E a \in DOMAIN arrays : StreamError(a)

\* the guard of Read
ReadEnabled == \E r \in DOMAIN rend : CanRead(r) /\ rend[r].rows = 0

\* the event loop runs what can run (weak fairness of the steps and, written
\* out over its guard, of Read), and every promise the host made settles
FairFail ==
    /\ InitValue /\ [][NextFail]_vars_all
    /\ WF_vars_all(RenderStep)
    /\ []<>(~ReadEnabled) \/ []<><<\E r \in DOMAIN rend : Read(r)>>_vars_all
    /\ WF_vars_all(\E p \in DOMAIN promises : Settle(p) \/ Reject(p))

\* the view of TemplateValue with b1 iterated over a promise for an array
NextStall ==
    \/ \E n \in 0..MaxRows : dataSource[FullName("b1")] = 0 /\ SetIterator("b1", n, TRUE)
    \/ \E p \in DOMAIN promises : Settle(p)
    \/ \E p \in DOMAIN promises : Reject(p)
    \/ ToStream
    \/ \E r \in DOMAIN rend : Start(r)
    \/ \E r \in DOMAIN rend : Ready(r)
    \/ \E r \in DOMAIN rend : Read(r)
    \/ \E r \in DOMAIN rend : ReadRow(r)
    \/ \E r \in DOMAIN rend : Transform(r)
    \/ \E r \in DOMAIN rend : Emit(r)
    \/ \E r \in DOMAIN rend : ChildEnd(r)

\* a step of a Renderer other than reading a queue
RendererStep ==
    \/ \E r \in DOMAIN rend : Start(r)
    \/ \E r \in DOMAIN rend : Ready(r)
    \/ \E r \in DOMAIN rend : Transform(r)
    \/ \E r \in DOMAIN rend : Emit(r)
    \/ \E r \in DOMAIN rend : ChildEnd(r)

\* the guard of ReadRow
ReadRowEnabled == \E r \in DOMAIN rend : CanRead(r) /\ rend[r].rows # 0

\* the event loop runs what can run (weak fairness of the steps and, written
\* out over their guards, of Read and ReadRow), and every promise the host made
\* settles
FairStall ==
    /\ InitValue /\ [][NextStall]_vars_all
    /\ WF_vars_all(RendererStep)
    /\ []<>(~ReadEnabled) \/ []<><<\E r \in DOMAIN rend : Read(r)>>_vars_all
    /\ []<>(~ReadRowEnabled) \/ []<><<\E r \in DOMAIN rend : ReadRow(r)>>_vars_all
    /\ WF_vars_all(\E p \in DOMAIN promises : Settle(p) \/ Reject(p))

-----------------------------------------------------------------------------
(* Views of templates with one deeplinked placeholder                      *)

\* the placeholders: a variable of a block, a built-in property of it, and
\* paths with an unbound name at the end, in the middle and at the start
Links ==
    {<<"b","1",".","n","m">>, <<"b","1",".","n","m",".","l","e","n","g","t","h">>,
     <<"b","1",".","z","z">>, <<"b","1",".","z","z",".","l","e","n","g","t","h">>,
     <<"z","z",".","n","m">>}

\* "{<link>}-{#b1}{nm}{/b1}"
LinkTemplates ==
    {<<TagOf(l), Chars1("-"), OpenOf(<<"b","1">>), TagOf(<<"n","m">>),
       CloseOf(<<"b","1">>)>> : l \in Links}

InitLink == \E t \in LinkTemplates : Created(t)

NextLink ==
    \/ \E bn \in {"", "b1"} : Set(bn, "nm", FALSE)
    \/ ToStream
    \/ \E r \in DOMAIN rend : Start(r)
    \/ \E r \in DOMAIN rend : Ready(r)
    \/ \E r \in DOMAIN rend : Read(r)
    \/ \E r \in DOMAIN rend : Transform(r)
    \/ \E r \in DOMAIN rend : Emit(r)
    \/ \E r \in DOMAIN rend : ChildEnd(r)

SpecLink == InitLink /\ [][NextLink]_vars_all

-----------------------------------------------------------------------------
(* Views of short templates written with block markers, and a loaded file  *)

\* the most segments a template with block markers is written from
MaxTree == 4

TreeSegs ==
    {OpenOf(<<"b","1">>), CloseOf(<<"b","1">>),
     OpenOf(<<"b","3">>), CloseOf(<<"b","3">>), <<"a">>}

TreeTemplates == SeqsUpTo(TreeSegs, MaxTree)

InitTree == \E t \in TreeTemplates : Created(t)

\* the content of the file the host loads: "{#in}f{/in}"
NestedFile == OpenOf(<<"i","n">>) \o <<"f">> \o CloseOf(<<"i","n">>)

NextTree ==
    \/ \E bn \in {"", "b1", "zz"} : LoadText(NestedFile, "ld", bn)
    \/ ToStream
    \/ \E r \in DOMAIN rend : Start(r)
    \/ \E r \in DOMAIN rend : Ready(r)
    \/ \E r \in DOMAIN rend : Read(r)
    \/ \E r \in DOMAIN rend : Transform(r)
    \/ \E r \in DOMAIN rend : Emit(r)
    \/ \E r \in DOMAIN rend : ChildEnd(r)

SpecTree == InitTree /\ [][NextTree]_vars_all

-----------------------------------------------------------------------------
(* The view with a block inside an iterated block                          *)

\* "{#b1}{n1},{n2}{#b3}{n2}{/b3}{/b1}"
TemplateNest ==
    <<OpenOf(<<"b","1">>), TagOf(<<"n","1">>), <<",">>, TagOf(<<"n","2">>),
      OpenOf(<<"b","3">>), TagOf(<<"n","2">>), CloseOf(<<"b","3">>),
      CloseOf(<<"b","1">>)>>

InitNest == Created(TemplateNest)

\* the array the host iterates b1 over: [{n1: "r<8"}, {n2: "r<9"}]
KeyRows == <<("n1" :> RowValue(8)), ("n2" :> RowValue(9))>>

NextNest ==
    \/ \E bn \in {"", "b1"}, k \in Keys : Set(bn, k, FALSE)
    \/ SetDataSourceOf("b1", "data", KeyRows, FALSE)
    \/ ToStream
    \/ \E r \in DOMAIN rend : Start(r)
    \/ \E r \in DOMAIN rend : Ready(r)
    \/ \E r \in DOMAIN rend : Read(r)
    \/ \E r \in DOMAIN rend : ReadRow(r)
    \/ \E r \in DOMAIN rend : Transform(r)
    \/ \E r \in DOMAIN rend : Emit(r)
    \/ \E r \in DOMAIN rend : ChildEnd(r)

SpecNest == InitNest /\ [][NextNest]_vars_all

\* the same view with the inner block iterated as well
NextDeep ==
    \/ SetDataSourceOf("b1", "data", KeyRows, FALSE)
    \/ \E n \in 1..MaxRows : SetIterator("b1:b3", n, FALSE)
    \/ ToStream
    \/ \E r \in DOMAIN rend : Start(r)
    \/ \E r \in DOMAIN rend : Ready(r)
    \/ \E r \in DOMAIN rend : Read(r)
    \/ \E r \in DOMAIN rend : ReadRow(r)
    \/ \E r \in DOMAIN rend : Transform(r)
    \/ \E r \in DOMAIN rend : Emit(r)
    \/ \E r \in DOMAIN rend : ChildEnd(r)

SpecDeep == InitNest /\ [][NextDeep]_vars_all

-----------------------------------------------------------------------------
(* The file loader under calls that overlap                                *)

InitLoad == Created(<<<<"a">>>>)

NextLoad ==
    \/ \E filename \in FileNames : LoadFile(filename)
    \/ \E i \in DOMAIN reading : ReadFileDone(i)
    \/ \E i \in DOMAIN reading : ReadFileFailed(i)

SpecLoad == InitLoad /\ [][NextLoad]_vars_all

-----------------------------------------------------------------------------
(* Views of templates with a placeholder that names a block                *)

\* the most Renderers one inside the other that a render is followed through
MaxDepth == 4

\* "{#b1}a{b1}{/b1}", "{#b1}{#b3}a{b1}{/b3}{/b1}", "{#b1}a{#b3}c{/b3}{b3}{/b1}"
\* and "{#b1}a{/b1}{b1}"
SelfTemplates ==
    {<<OpenOf(<<"b","1">>), <<"a">>, TagOf(<<"b","1">>), CloseOf(<<"b","1">>)>>,
     <<OpenOf(<<"b","1">>), OpenOf(<<"b","3">>), <<"a">>, TagOf(<<"b","1">>),
       CloseOf(<<"b","3">>), CloseOf(<<"b","1">>)>>,
     <<OpenOf(<<"b","1">>), <<"a">>, OpenOf(<<"b","3">>), <<"c">>,
       CloseOf(<<"b","3">>), TagOf(<<"b","3">>), CloseOf(<<"b","1">>)>>,
     <<OpenOf(<<"b","1">>), <<"a">>, CloseOf(<<"b","1">>), TagOf(<<"b","1">>)>>}

InitSelf == \E t \in SelfTemplates : Created(t)

NextSelf ==
    \/ ToStream
    \/ \E r \in DOMAIN rend : Start(r)
    \/ \E r \in DOMAIN rend : Ready(r)
    \/ \E r \in DOMAIN rend : Read(r)
    \/ \E r \in DOMAIN rend : Transform(r)
    \/ \E r \in DOMAIN rend : Len(r) < MaxDepth /\ Emit(r)
    \/ \E r \in DOMAIN rend : ChildEnd(r)

SpecSelf == InitSelf /\ [][NextSelf]_vars_all

-----------------------------------------------------------------------------
(* The view with one key set several times                                 *)

\* the most calls of set() on the key
MaxCalls == 3

\* "a{nm}"
TemplateSet == <<<<"a">>, TagOf(Nm)>>

InitSet == Created(TemplateSet)

\* the value the host passes in its n-th call
CallValue(n) == StrVal(<<"v", "<", DigitChar(n)>>)
CallNo(v) == CHOOSE n \in 1..(MaxCalls + 1) : v = CallValue(n)

\* the number of the latest call whose value the view holds or awaits
Calls ==
    MaxOf({0}
          \cup (IF "nm" \in DOMAIN vars[Root]
                THEN {CallNo(vars[Root]["nm"])} ELSE {})
          \cup {CallNo(promises[p].payload["nm"]) : p \in DOMAIN promises})

NextSet ==
    \/ Calls < MaxCalls /\ SetTo("", "nm", CallValue(Calls + 1))
    \/ Calls < MaxCalls /\ SetPromisedTo("", "nm", CallValue(Calls + 1))
    \/ \E p \in DOMAIN promises : Settle(p)
    \/ ToStream
    \/ \E r \in DOMAIN rend : Start(r)
    \/ \E r \in DOMAIN rend : Ready(r)
    \/ \E r \in DOMAIN rend : Read(r)
    \/ \E r \in DOMAIN rend : Transform(r)
    \/ \E r \in DOMAIN rend : Emit(r)

SpecSet == InitSet /\ [][NextSet]_vars_all

-----------------------------------------------------------------------------
(* The view with a key set that is the name of a child block              *)

\* "a{#b1}c{#b3}d{/b3}{/b1}"
TemplateBind ==
    <<<<"a">>, OpenOf(<<"b","1">>), <<"c">>, OpenOf(<<"b","3">>), <<"d">>,
      CloseOf(<<"b","3">>), CloseOf(<<"b","1">>)>>

InitBind == Created(TemplateBind)

\* the blocks the host names in set(), and the keys it sets there
BindArgs == {"", "b1"}
BindKeys == {"b1", "b3"}

NextBind ==
    \/ \E bn \in BindArgs : \E k \in BindKeys :
          SetTo(bn, k, StrVal(ValueFor(bn, k)))
    \/ \E bn \in {"b1", "b1:b3"} : Remove(bn)
    \/ \E bn \in {"b1", "b1:b3"} : Restore(bn)
    \/ ToStream
    \/ \E r \in DOMAIN rend : Start(r)
    \/ \E r \in DOMAIN rend : Ready(r)
    \/ \E r \in DOMAIN rend : Read(r)
    \/ \E r \in DOMAIN rend : Transform(r)
    \/ \E r \in DOMAIN rend : Emit(r)
    \/ \E r \in DOMAIN rend : ChildEnd(r)

SpecBind == InitBind /\ [][NextBind]_vars_all

-----------------------------------------------------------------------------
(* Properties: order of the output and the wait-sets                       *)

IsPrefix(a, b) == Len(a) <= Len(b) /\ SubSeq(b, 1, Len(a)) = a

\* the chunks of the output that element n of the Renderer at r produced, by
\* their places in the output
ChunksOf(r, n) ==
    {x \in DOMAIN output : IsPrefix(r \o <<n>>, output[x].src)}

\* the numbers of the elements of the Renderer at r that produced output
Emitting(r) ==
    {output[x].src[Len(r) + 1] : x \in {y \in DOMAIN output :
                                          /\ IsPrefix(r, output[y].src)
                                          /\ Len(output[y].src) > Len(r)}}

\* C1: in every Renderer, whatever the order in which the promises bound to its
\* placeholders settled, everything element i of its queue produced is written
\* to the output before anything element j produced, whenever i < j.
C1_SourceOrder ==
    \A r \in DOMAIN rend :
        \A i \in Emitting(r), j \in Emitting(r) :
            i < j => \A x \in ChunksOf(r, i), y \in ChunksOf(r, j) : x < y

\* C1 witness: both placeholders of the root are bound to promises, the second's
\* promise settled before the first's, and both values have been written.
C1_Witness ==
    /\ {"n1", "n2"} \subseteq DOMAIN vars[Root]
    /\ vars[Root]["n1"].t = "promise"
    /\ vars[Root]["n2"].t = "promise"
    /\ promises[vars[Root]["n1"].p].at > promises[vars[Root]["n2"].p].at
    /\ promises[vars[Root]["n2"].p].at > 0
    /\ \E x \in DOMAIN output, y \in DOMAIN output :
          /\ x < y
          /\ output[x].block = Root /\ output[x].e.name = "n1"
          /\ output[y].block = Root /\ output[y].e.name = "n2"

\* whether any chunk that the Renderer at r produced from its own queue has been
\* pushed, to the consumer or to a Renderer nothing listens to yet
HasPushed(r) ==
    \/ \E x \in DOMAIN output : output[x].src = r \o <<output[x].src[Len(output[x].src)]>>
    \/ \E q \in DOMAIN rend : \E x \in DOMAIN rend[q].held :
          rend[q].held[x].src = r \o <<rend[q].held[x].src[Len(rend[q].held[x].src)]>>

Pending(p) == promises[p].state = "pending"

RECURSIVE Tokens(_)
Tokens(text) ==
    LET got == RenderQueueRead(text)
    IN  IF got.pushed = <<Eof>> THEN <<Eof>> ELSE got.pushed \o Tokens(got.rest)

\* the Renderer at r can take no step until a promise settles
Blocked(r) ==
    \/ rend[r].st \in {"ended", "errored"}
    \/ /\ rend[r].st = "constructed"
       /\ ~IsRow(r)
       /\ dataSource[rend[r].block] # 0
       /\ Pending(dataSource[rend[r].block])
    \/ rend[r].st = "waiting" /\ ~AllResolved(promises, rend[r].waits)
    \/ /\ rend[r].st = "flowing"
       /\ rend[r].busy
       /\ \/ Awaited(promises, rend[r].val).t = "promise"
          \/ rend[r].val.t = "stream" /\ rend[rend[r].val.r].st # "ended"

Quiet == phase = "rendering" /\ \A r \in DOMAIN rend : Blocked(r)

\* the blocks nested directly in block b
ChildrenOf(b) == {c \in Blocks : parentOf[c] = b}

\* every pending promise is one block c waits for, and there is one
OnlyWaitsOf(c) ==
    /\ \E p \in DOMAIN promises : Pending(p)
    /\ \A p \in DOMAIN promises :
          Pending(p) => /\ promises[p].kind # "value"
                        /\ promises[p].block = c

\* C3: while a promise that only a child block waits for is pending, no chunk of
\* the child is in the output; and when the render has gone as far as it can
\* without that promise, the parent's Renderer holds the child's Renderer, which
\* is still waiting, and every element of the parent before the child that has
\* a value has been written.
C3_PrefixNotHeldBack ==
    \A r \in DOMAIN rend :
        \A c \in ChildrenOf(rend[r].block) :
            (OnlyWaitsOf(c) /\ rend[r].rows = 0 /\ isVisible[rend[r].block])
            => /\ \A x \in DOMAIN output :
                     ~(IsPrefix(r, output[x].src) /\ output[x].block = c)
               /\ Quiet =>
                    /\ rend[r].busy
                    /\ rend[r].val.t = "stream"
                    /\ rend[rend[r].val.r].block = c
                    /\ rend[rend[r].val.r].st = "waiting"
                    /\ \A k \in 1..(rend[r].cur.no - 1) :
                          \E el \in {[no |-> k, e |-> Tokens(content[rend[r].block])[k]]} :
                          \E data \in {Awaited(promises, FirstValue(r, el))} :
                             \/ isNullOrUndefined(data)
                             \/ data = StrVal(<<>>)
                             \/ \E x \in DOMAIN output :
                                   /\ output[x].src = r \o <<k>>
                                   /\ output[x].data =
                                         Rendered(rend[r].block, el.e, data)

\* C3 witness: the child's promise is pending, its Renderer waits, and the
\* parent has written the value of the placeholder and the text before it.
C3_Witness ==
    /\ Quiet
    /\ OnlyWaitsOf(ChildName(Root, "b1"))
    /\ rend[RootPath].busy
    /\ rend[RootPath].val.t = "stream"
    /\ rend[rend[RootPath].val.r].st = "waiting"
    /\ \E x, y \in DOMAIN output :
          /\ x < y
          /\ output[x].e.name = "n1"
          /\ output[y].e.is = "text"
    /\ \A x \in DOMAIN output : output[x].block = Root

-----------------------------------------------------------------------------
(* Properties: what a template renders to                                  *)

\* the render is over: the root's Renderer has ended
Done == phase = "rendering" /\ rend[RootPath].st = "ended"

\* everything the consumer of toStream() has received
Out == Flatten([x \in DOMAIN output |-> output[x].data])

\* the tag grammar in words: at least 2 characters, of letters, digits, _ - . |,
\* the first a letter, the last a letter or a digit
IsTagName(cs) ==
    /\ Len(cs) >= 2
    /\ \A i \in DOMAIN cs : cs[i] \in Letter \cup Digit \cup {"_", "-", ".", "|"}
    /\ cs[1] \in Letter
    /\ cs[Len(cs)] \in Letter \cup Digit

\* a brace group of the text satisfies the tag grammar
HasTag(s) ==
    \E i \in DOMAIN s, j \in DOMAIN s :
        /\ i < j
        /\ s[i] = "{"
        /\ s[j] = "}"
        /\ IsTagName(SubSeq(s, i + 1, j - 1))

\* C4: a template in which no brace group satisfies the tag grammar renders to
\* exactly its own text.
C4_PlainTextIdentity ==
    (Done /\ ~HasTag(Flatten(segs))) => Out = Flatten(segs)

\* C4 witness: the template {a}, whose name is shorter than 2 characters, has
\* been rendered, to {a}.
C4_Witness ==
    /\ Done
    /\ segs = <<<<"{">>, <<"a">>, <<"}">>>>
    /\ Out = <<"{", "a", "}">>

\* the template is plain segments around one group of braces with the name nm,
\* which starts at segment i
OnlyTagAt(i) ==
    /\ i + 2 <= Len(segs)
    /\ segs[i] \in Opens
    /\ segs[i + 1] = Nm
    /\ segs[i + 2] \in Closes
    /\ \A j \in DOMAIN segs \ {i, i + 1, i + 2} : segs[j] \in PlainSegs

\* the string the host bound to nm, empty when it bound none
Bound ==
    IF "nm" \in DOMAIN vars[Root] THEN vars[Root]["nm"].s ELSE <<>>

TextBefore(i) == Flatten(SubSeq(segs, 1, i - 1))
TextAfter(i) == Flatten(SubSeq(segs, i + 3, Len(segs)))

C6_BracesCorrected ==
    \A i \in DOMAIN segs :
        (Done /\ OnlyTagAt(i))
        => /\ (segs[i] = <<"{","{">> /\ segs[i + 2] = <<"}">>)
                => Out = TextBefore(i) \o <<"{">> \o htmlescape(Bound)
                            \o TextAfter(i)
           /\ (segs[i] = <<"{">> /\ segs[i + 2] = <<"}","}">>)
                => Out = TextBefore(i) \o htmlescape(Bound) \o <<"}">>
                            \o TextAfter(i)

\* C6 witness: {{nm} has been rendered with a string bound that escaping
\* changes.
C6_Witness ==
    /\ Done
    /\ segs = <<<<"{","{">>, Nm, <<"}">>>>
    /\ htmlescape(Bound) # Bound
    /\ Out = <<"{">> \o htmlescape(Bound)

\* the template is plain text a, at most once before and once after, around one
\* CDATA span that opens at segment i and closes at segment j
OnlyCdataAt(i, j) ==
    /\ i < j
    /\ segs[i] = CdataOpen
    /\ segs[j] = CdataClose
    /\ \A k \in DOMAIN segs \ (i..j) : segs[k] = <<"a">>
    /\ \A k \in (i + 1)..(j - 1) : segs[k] \in InnerSegs

\* C7: at the place of a {{CDATA[ ... ]}} span the output has the inner text,
\* byte for byte, and nothing else.
C7_CdataVerbatim ==
    \A i \in DOMAIN segs, j \in DOMAIN segs :
        (Done /\ OnlyCdataAt(i, j))
        => Out = Flatten(SubSeq(segs, 1, i - 1))
                    \o Flatten(SubSeq(segs, i + 1, j - 1))
                    \o Flatten(SubSeq(segs, j + 1, Len(segs)))

\* the place of the first */} after segment i, or 0
ClosedAt(ss, i) ==
    IF \E j \in (i + 1)..Len(ss) : ss[j] = CommentClose
    THEN MinOf({j \in (i + 1)..Len(ss) : ss[j] = CommentClose})
    ELSE 0

\* the segments left when every comment span, from a {/* to the first */} after
\* it, is taken out with one newline segment that follows it
RECURSIVE Uncommented(_, _)
Uncommented(ss, i) ==
    IF i > Len(ss) THEN <<>>
    ELSE IF ss[i] = CommentOpen /\ ClosedAt(ss, i) # 0
    THEN LET j == ClosedAt(ss, i)
         IN  IF j < Len(ss) /\ ss[j + 1] = <<"\n">>
             THEN Uncommented(ss, j + 2)
             ELSE Uncommented(ss, j + 1)
    ELSE <<ss[i]>> \o Uncommented(ss, i + 1)

\* what a segment outside the comments renders to
RenderedSeg(seg) == IF seg = NmTag THEN htmlescape(Bound) ELSE seg

\* C8: a template with comments is parsed to, and renders as, the template
\* without its comment spans and without one newline after each of them.
C8_CommentsDropped ==
    (\A i \in DOMAIN segs : segs[i] \in MarkSegs)
    => LET kept == Uncommented(segs, 1)
       IN  /\ content[Root] = Flatten(kept)
           /\ Done => Out = Flatten([i \in DOMAIN kept |-> RenderedSeg(kept[i])])

\* C8 witness: {/**/}, a newline and then a has been rendered, to a.
C8_Witness ==
    /\ Done
    /\ segs = <<CommentOpen, CommentClose, <<"\n">>, <<"a">>>>
    /\ Out = <<"a">>

-----------------------------------------------------------------------------
(* Properties: the scope of variables and masks                            *)

\* the blocks of TemplateScope, as it is written: b3 inside b1, b2 beside b1
B1 == ChildName(Root, "b1")
B3 == ChildName(B1, "b3")
B2 == ChildName(Root, "b2")

\* block outer is block b or is written around it
Encloses(outer, b) == outer = b \/ outer = Root \/ (outer = B1 /\ b = B3)

\* the name the host passes for a block
ApiName(b) ==
    CASE b = Root -> "" [] b = B1 -> "b1" [] b = B3 -> "b1:b3" [] OTHER -> "b2"

\* the string set(kv, block) binds to nm
SetOn(b) == StrVal(ValueFor(ApiName(b), "nm"))

\* the blocks around b, b included, whose table has the name
HoldersAround(table, b, k) ==
    {h \in Blocks : k \in DOMAIN table[h] /\ Encloses(h, b)}

\* the one of them that every other of them is written around
Nearest(H) == CHOOSE h \in H : \A g \in H : Encloses(g, h)

\* the chunks of the placeholders {nm} and {nm|mk}, which name nm itself
NamesNm(x) == output[x].e.name = "nm" /\ output[x].e.deeplinks = <<>>

C10_MaskScope ==
    \A x \in DOMAIN output :
        (output[x].e.masks = <<"mk">>)
        => LET H == HoldersAround(masks, output[x].block, "mk")
               escaped == htmlescape(output[x].val.s)
           IN  output[x].data =
                  IF H = {} THEN escaped
                  ELSE ApplyMask(masks[Nearest(H)]["mk"], escaped)

\* C10 witness: mk is registered on b1 only and nm set on the root only; b1 and
\* b3 have written the value masked, the root and b2 have written it unmasked.
C10_Witness ==
    /\ Done
    /\ {h \in Blocks : "mk" \in DOMAIN masks[h]} = {B1}
    /\ {h \in Blocks : "nm" \in DOMAIN vars[h]} = {Root}
    /\ \A b \in Blocks :
          \E x \in DOMAIN output :
              /\ output[x].e.masks = <<"mk">>
              /\ output[x].block = b
              /\ output[x].data =
                    IF b \in {B1, B3}
                    THEN ApplyMask(masks[B1]["mk"], htmlescape(SetOn(Root).s))
                    ELSE htmlescape(SetOn(Root).s)
              /\ ApplyMask(masks[B1]["mk"], htmlescape(SetOn(Root).s))
                    # htmlescape(SetOn(Root).s)

-----------------------------------------------------------------------------
(* Properties: iteration                                                   *)

\* the rows the host handed over as the data source of block b
Given(b) == promises[dataSource[b]].payload.given

\* the chunks the renders of block b wrote to the output, in order
WrittenBy(b) == SelectSeq(output, LAMBDA c : c.block = b)

\* the Renderers of the rows of an iterated block
RowRenderers == {r \in DOMAIN rend : IsRow(r)}

\* what a row of TemplateMain's block renders to when n1 is not bound: the
\* row's n2, escaped
RowRender(row) == htmlescape(row["n2"].s)

\* what holds of the rows of b1: when the render is over, exactly one row
\* Renderer per row given was made, the chunks of b1 in the output are the
\* renders of the rows in the order given, and they lie together
RowsInOrder ==
    (Done /\ dataSource[B1] # 0) =>
        /\ Cardinality(RowRenderers) = Len(Given(B1))
        /\ Len(WrittenBy(B1)) = Len(Given(B1))
        /\ \A i \in DOMAIN Given(B1) :
              WrittenBy(B1)[i].data = RowRender(Given(B1)[i])
        /\ \A x, y, z \in DOMAIN output :
              (x < y /\ y < z /\ output[x].block = B1 /\ output[z].block = B1)
                  => output[y].block = B1

\* C11: when the render of TemplateMain with a data source of n rows on b1 (and
\* nothing bound in the root) is over, the output is the root's text before
\* the block, then the renders of rows 1..n in that order and nothing else at
\* the block's position (nothing at all when n = 0), then what follows the
\* block.
C11_RowsAtBlockPosition ==
    (Done /\ dataSource[B1] # 0) =>
        Out = <<",">> \o Flatten([i \in DOMAIN Given(B1) |->
                                     RowRender(Given(B1)[i])])

\* the zero-based place of the row that the Renderer at r renders: the rows are
\* elements 1, 2, ... of the queue of the block's Renderer
RowIndex(r) == r[Len(r)] - 1

\* what a placeholder of the row at r that names k resolves to
RowReads(r, k) == LookupVar(vars, parentOf, rend[r].scope, k)

\* C12: in every row render, a placeholder naming talismanRowNum reads the
\* zero-based index of the row, and a placeholder naming the even/odd flag
\* (talismanRowIsEven) reads a value.
C12_RowIndexAndFlag ==
    \A r \in RowRenderers :
        /\ RowReads(r, "talismanRowNum") = NumVal(RowIndex(r))
        /\ RowReads(r, "talismanRowIsEven") # Undefined

\* the row Renderers made before the one at r by the same block Renderer
RowsBefore(r) ==
    {q \in RowRenderers : Above(q) = Above(r) /\ RowIndex(q) < RowIndex(r)}

\* the row Renderer that wrote chunk c
RowOf(c) == CHOOSE r \in RowRenderers : IsPrefix(r, c.src)

FromRow(c) == \E r \in RowRenderers : IsPrefix(r, c.src)

\* everything the Renderer at r produced has reached the consumer, and it ended
FullyEmitted(r) ==
    rend[r].st = "ended" /\ rend[r].piped /\ rend[r].held = <<>>

\* the Renderer at r has taken an element of its queue in hand
Begun(r) == rend[r].busy \/ rend[r].held # <<>> \/ HasPushed(r)

\* C13 as stated: a row's render does not begin (no element of the row is in
\* hand, none was resolved) until every earlier row of the block has been
\* emitted in full.
C13_NextRowWaits ==
    \A r \in RowRenderers :
        Begun(r) => \A q \in RowsBefore(r) : FullyEmitted(q)

\* C13, amended: rows do not interleave in the output.  A chunk of a row is in
\* the output only when every earlier row of the block has ended with all it
\* produced written, and the chunks of the rows are in row order.
C13_RowsDoNotInterleave ==
    /\ \A x \in DOMAIN output :
          FromRow(output[x]) =>
             \A q \in RowsBefore(RowOf(output[x])) : FullyEmitted(q)
    /\ \A x, y \in DOMAIN output :
          (x < y /\ FromRow(output[x]) /\ FromRow(output[y]))
             => RowIndex(RowOf(output[x])) <= RowIndex(RowOf(output[y]))

\* C13 witness: the first and the second row of a block have both been written
\* to the output.
C13_Witness ==
    \E x, y \in DOMAIN output :
        /\ x < y
        /\ FromRow(output[x]) /\ RowIndex(RowOf(output[x])) = 0
        /\ FromRow(output[y]) /\ RowIndex(RowOf(output[y])) = 1

-----------------------------------------------------------------------------
(* Properties: visibility                                                  *)

\* block b and every block around it is visible
Shown(b) == \A i \in DOMAIN Chain(parentOf, b) : isVisible[Chain(parentOf, b)[i]]

\* what a placeholder of the root that names k renders to in TemplateVis, where
\* the root's values are plain strings: the value escaped, or nothing
RootRender(k) ==
    IF k \in DOMAIN vars[Root] THEN htmlescape(vars[Root][k].s) ELSE <<>>

\* what holds of a hidden block: no chunk is ever pushed by a Renderer of a
\* block that is hidden or nested in a hidden block, and when the render of
\* TemplateVis with b1 hidden is over, the root has written each of its own
\* elements, the text around the spliced tag included
HiddenWritesNothing ==
    /\ \A x \in DOMAIN output : Shown(output[x].block)
    /\ \A r \in DOMAIN rend :
          \A x \in DOMAIN rend[r].held : Shown(rend[r].held[x].block)
    /\ (Done /\ isVisible[Root] /\ ~isVisible[B1]) =>
          Out = <<"a">> \o RootRender("n1") \o <<"{", "}">> \o RootRender("n2")

\* C14: when the render of TemplateVis with b1 hidden is over, the output is
\* what the template without the span of b1 renders to: the root's text and
\* the values of its two placeholders, and not one byte at the place of b1.
C14_HiddenIsZeroBytes ==
    (Done /\ isVisible[Root] /\ ~isVisible[B1]) =>
        Out = <<"a">> \o RootRender("n1") \o RootRender("n2")

\* what holds of a hidden block: no Renderer of a block that is hidden, or
\* nested in a hidden block, ever has an element in hand, so no error of an
\* element (a rejecting placeholder promise) comes from it; its errors come
\* from the Renderer itself, before the first element
HiddenResolvesNothing ==
    /\ \A r \in DOMAIN rend : ~Shown(rend[r].block) => ~rend[r].busy
    /\ \A x \in DOMAIN errors :
          ~Shown(errors[x].block) => errors[x].src \in DOMAIN rend

\* C15: no Renderer of a hidden block has an element in hand, and every
\* 'error' event the consumer of the output stream receives comes from a block
\* that is visible, inside visible blocks.
C15_HiddenIsSilent ==
    /\ \A r \in DOMAIN rend : ~Shown(rend[r].block) => ~rend[r].busy
    /\ \A x \in DOMAIN errors : Shown(errors[x].block)

\* some chunk of block b is in the output
Appears(b) == \E x \in DOMAIN output : output[x].block = b

\* a step changes a block's visibility only by a remove or restore that names
\* it, before the render, and changes nothing else; remove leaves the block
\* hidden and restore leaves it visible, whatever it was.  So a block's flag is
\* FALSE exactly when the last call that named it was remove.
LastCallSetsFlag ==
    \A b \in Blocks :
        /\ isVisible'[b] # isVisible[b] =>
              /\ phase = "setup"
              /\ \E bn \in VisArgs : FullName(bn) = b /\ (Remove(bn) \/ Restore(bn))
        /\ \A bn \in VisArgs :
              FullName(bn) = b =>
                 /\ Remove(bn) => ~isVisible'[b]
                 /\ Restore(bn) => isVisible'[b]

\* C16 as stated: the last call that named B decides alone whether B is in the
\* output when the render is over.
C16_OwnLastCallDecides ==
    /\ [][LastCallSetsFlag]_vars_all
    /\ [](Done => \A b \in Blocks : Appears(b) <=> isVisible[b])

\* C16, amended: restore undoes remove and nothing else changes, and when the
\* render is over a block is in the output exactly when the last call naming
\* it, and the last call naming each block around it, was restore or there was
\* none.
C16_LastCallsDecide ==
    /\ [][LastCallSetsFlag]_vars_all
    /\ [](Done => \A b \in Blocks : Appears(b) <=> Shown(b))

\* C16 witness: the render is over after remove("b1:b3") was the last call
\* naming b3, and restore or no call the last naming b1: b1 is in the output
\* and b3 is not.
C16_Witness ==
    /\ Done
    /\ isVisible[Root] /\ isVisible[B1] /\ ~isVisible[B3]
    /\ Appears(B1) /\ ~Appears(B3)

-----------------------------------------------------------------------------
(* Properties: calls that name no block                                    *)

\* a call of the view with "zz", which is not on the block map
UnknownCall ==
    \/ Set("zz", "nm", FALSE)
    \/ SetIterator("zz", 1, FALSE)
    \/ Remove("zz")
    \/ Restore("zz")
    \/ AddMask("mk", "reverse", "zz")
    \/ RemoveMask("mk", "zz")
    \/ WaitUntil("zz")
    \/ Load("nm", "zz")

\* C17: a call of set, setIterator, remove, restore, addMask, removeMask,
\* waitUntil or load with a name that is not on the block map changes nothing:
\* no block's variables, masks, visibility, data source or wait-set, no
\* promise, no error, and no block is added.
C17_UnknownBlockNoOp ==
    /\ [][UnknownCall => UNCHANGED vars_all]_vars_all
    /\ [](FullName("zz") \notin Blocks)

\* C17 witness: a view on which the host has set a variable, a mask, a data
\* source and a wait-set promise, hidden a block and loaded a file, and which
\* has no block named zz: each call above is made in this state and leaves it
\* as it is.
C17_Witness ==
    /\ phase = "setup"
    /\ FullName("zz") \notin Blocks
    /\ "mk" \in DOMAIN masks[B1]
    /\ ~isVisible[B1]
    /\ dataSource[B1] # 0
    /\ Len(waitingFor[B1]) = 2
    /\ ChildName(B1, "nm") \in Blocks

-----------------------------------------------------------------------------
(* Properties: chains of masks                                             *)

\* mk(...m2(m1(cs))...) for the functions fns = <<m1, m2, ..., mk>>
RECURSIVE Composed(_, _)
Composed(fns, cs) ==
    IF fns = <<>> THEN cs
    ELSE ApplyMask(fns[Len(fns)], Composed(SubSeq(fns, 1, Len(fns) - 1), cs))

\* the names of chain that the root has a mask for, in the order of the chain
Registered(chain) == SelectSeq(chain, LAMBDA m : m \in DOMAIN masks[Root])

\* the functions the root has for the names of chain
FnsOf(chain) == [i \in DOMAIN chain |-> masks[Root][chain[i]]]

\* the chunks of the output written for a placeholder with a chain of masks
Masked == {x \in DOMAIN output :
              output[x].e.is = "tag" /\ output[x].e.masks # <<>>}

\* C18: for a placeholder whose masks are all registered, what is written is
\* the masks applied left to right, each to the result of the one before:
\* mk(...m2(m1(value))...) for a raw placeholder; for an escaping one the same
\* composition, of the escaped value or escaped as a whole.
C18_MasksLeftToRight ==
    \A x \in Masked :
        LET c == output[x]
        IN  Registered(c.e.masks) = c.e.masks =>
               IF c.e.escape
               THEN \/ c.data = Composed(FnsOf(c.e.masks), htmlescape(c.val.s))
                    \/ c.data = htmlescape(Composed(FnsOf(c.e.masks), c.val.s))
               ELSE c.data = Composed(FnsOf(c.e.masks), c.val.s)

\* C18 witness: the raw placeholder and the escaping one have both been written
\* with m1, m2 and m3 registered, m1 and m2 being functions that do not
\* commute.
C18_Witness ==
    /\ Done
    /\ DOMAIN masks[Root] = MaskNames \cup {"escape"}
    /\ masks[Root]["m1"] # masks[Root]["m2"]
    /\ \E x, y \in Masked : output[x].e.escape /\ ~output[y].e.escape

\* C19: a name of the chain that the block's scope has no mask for (never added,
\* or removed) is passed over: what is written is the registered masks of the
\* chain applied in the chain's order, and a placeholder whose value is set is
\* written whichever of its masks are registered.
C19_UnknownMaskSkipped ==
    /\ \A x \in Masked :
          LET c   == output[x]
              fns == FnsOf(Registered(c.e.masks))
          IN  IF c.e.escape
              THEN \/ c.data = Composed(fns, htmlescape(c.val.s))
                   \/ c.data = htmlescape(Composed(fns, c.val.s))
              ELSE c.data = Composed(fns, c.val.s)
    /\ (Done /\ "nm" \in DOMAIN vars[Root]) => Cardinality(Masked) = 2

\* C19 witness: both placeholders have been written while the root had a mask
\* for m1 and for m3 and none for m2.
C19_Witness ==
    /\ Done
    /\ DOMAIN masks[Root] = {"m1", "m3", "escape"}
    /\ masks[Root]["m1"] # masks[Root]["m3"]
    /\ Cardinality(Masked) = 2

\* C20: for an escaping placeholder with a chain of masks, the masks are applied
\* to the value as it was resolved and the result is escaped:
\* escape(mk(...m1(value)...)).
C20_MasksThenEscape ==
    \A x \in Masked :
        LET c == output[x]
        IN  c.e.escape =>
               c.data = htmlescape(Composed(FnsOf(Registered(c.e.masks)), c.val.s))

\* what the Renderer does: the value is escaped first and the masks are applied
\* to the escaped text, so what a mask returns is written as it is
EscapeThenMasks ==
    \A x \in Masked :
        LET c == output[x]
        IN  c.e.escape =>
               c.data = Composed(FnsOf(Registered(c.e.masks)), htmlescape(c.val.s))

-----------------------------------------------------------------------------
(* Properties: the values of placeholders                                  *)

\* the value at the end of the functions and promises around v
RECURSIVE Terminal(_)
Terminal(v) ==
    IF v.t = "fn" THEN Terminal(v.r)
    ELSE IF v.t = "promise" THEN Terminal(promises[v.p].payload)
    ELSE v

\* what the host bound to nm in the root, once it has
NmBound == "nm" \in DOMAIN vars[Root]
NmValue == Terminal(vars[Root]["nm"])

\* the places in the output of what the placeholder nm of the root wrote, and
\* of the text b after it
NmAt == {i \in DOMAIN output : output[i].block = Root /\ output[i].e.name = "nm"}
TextAt(t) == {i \in DOMAIN output : /\ output[i].block = Root
                                    /\ output[i].e.is = "text"
                                    /\ output[i].e.text = t}

\* what the placeholder nm of the root wrote, in order
NmWritten == SelectSeq(output, LAMBDA c : c.block = Root /\ c.e.name = "nm")
DataOf(cs) == [i \in DOMAIN cs |-> cs[i].data]

\* the chunks the host put into a byte stream
ChunksGiven(s) ==
    LET cs == SelectSeq(s.given, LAMBDA ev : ev.t = "str")
    IN  [i \in DOMAIN cs |-> cs[i].s]

\* C21: when nm ends in a byte stream, what the placeholder writes is the
\* stream's chunks as they came, in arrival order, neither escaped nor masked,
\* after the text before the placeholder and before the text after it; and the
\* text after it is written only when every chunk has been and the stream has
\* ended
C21_StreamInPlace ==
    (NmBound /\ NmValue.t = "bytes") =>
        /\ IsPrefix(DataOf(NmWritten), ChunksGiven(NmValue))
        /\ \A i \in NmAt : /\ \A j \in TextAt(<<"a">>) : j < i
                           /\ \A j \in TextAt(<<"b">>) : i < j
        /\ TextAt(<<"b">>) # {} =>
              /\ DataOf(NmWritten) = ChunksGiven(NmValue)
              /\ arrays[NmValue.a] = <<>>
              /\ NmValue.given[Len(NmValue.given)] = StreamEnded

\* a stream of more than one chunk, bound where the mask mk is registered, has
\* been written and the text after the placeholder follows
C21_Witness ==
    /\ NmBound /\ NmValue.t = "bytes"
    /\ "mk" \in DOMAIN masks[Root]
    /\ Len(NmWritten) > 1
    /\ TextAt(<<"b">>) # {}

\* the root Renderer has ended
Ended == RootPath \in DOMAIN rend /\ rend[RootPath].st = "ended"

\* C22: whatever functions and promises nm is bound inside, the placeholder
\* writes what it writes for the value at the end of them: a string escaped and
\* masked as the string itself is, a byte stream chunk by chunk; no function and
\* no promise is ever written; and a render that has ended has written it
C22_NestingIsTransparent ==
    NmBound =>
        /\ \A i \in NmAt :
              LET c == output[i]
              IN  IF NmValue.t = "str"
                  THEN /\ c.val = NmValue
                       /\ c.data = Rendered(Root, c.e, NmValue)
                  ELSE /\ \E k \in DOMAIN NmValue.given : c.val = NmValue.given[k]
                       /\ c.data = c.val.s
        /\ Ended => DataOf(NmWritten) =
                       IF NmValue.t = "str"
                       THEN <<Rendered(Root, TagElement(<<"n","m","|","m","k">>, TRUE),
                                       NmValue)>>
                       ELSE ChunksGiven(NmValue)

\* a string inside a promise inside a function has been written, and so has one
\* inside a function inside a promise
C22_Witness ==
    /\ NmBound
    /\ NmValue.t = "str"
    /\ NmAt # {}
    /\ \/ vars[Root]["nm"].t = "fn" /\ vars[Root]["nm"].r.t = "promise"
       \/ vars[Root]["nm"].t = "promise"
             /\ promises[vars[Root]["nm"].p].payload.t = "fn"

\* the vars object the Renderer that wrote chunk c reads names from
ScopeOf(c) == rend[Above(c.src)].scope

\* C23: a placeholder whose name is bound neither in its block nor in any block
\* around it writes nothing (so nothing is escaped and no mask is run for it),
\* raises no error, and the render goes on past it: no chunk in the output comes
\* from an unbound name, and while nm is unbound the root raises no error and a
\* render that has ended has written the text after the placeholder
C23_AbsentIsEmpty ==
    /\ \A i \in DOMAIN output :
          output[i].e.is = "tag" =>
             LookupVar(vars, parentOf, ScopeOf(output[i]), output[i].e.name)
                # Undefined
    /\ ~NmBound =>
          /\ NmAt = {}
          /\ \A i \in DOMAIN errors : errors[i].block # Root
          /\ Ended => TextAt(<<"b">>) # {}

\* nm is unbound, its mask mk is registered, and the render has ended
C23_Witness ==
    /\ ~NmBound
    /\ "mk" \in DOMAIN masks[Root]
    /\ Ended
    /\ TextAt(<<"b">>) # {}
    /\ errors = <<>>

-----------------------------------------------------------------------------
(* Properties: deeplinks                                                   *)

\* the property k of the value v, absent when v has none: a variable visible in
\* a block, the length of a string
Prop(v, k) ==
    CASE v.t = "block" -> LookupVar(vars, parentOf, v.b, k)
      [] v.t = "str" /\ k = "length" -> NumVal(Len(v.s))
      [] OTHER -> Undefined

\* the value at the end of the path ks from v, absent as soon as a step is
RECURSIVE PathValue(_, _)
PathValue(v, ks) ==
    IF ks = <<>> THEN v ELSE PathValue(Prop(v, Head(ks)), Tail(ks))

\* the chunks of the output written for a deeplinked placeholder of the root
Deeplinked == {i \in DOMAIN output : /\ output[i].block = Root
                                     /\ output[i].e.deeplinks # <<>>}

\* the deeplinked placeholder of the template
LinkTag == TagElement(SubSeq(segs[1], 2, Len(segs[1]) - 1), TRUE)
LinkValue == PathValue(LookupVar(vars, parentOf, Root, LinkTag.name),
                       LinkTag.deeplinks)

\* C24: a deeplinked placeholder writes the value found by reading the path
\* property by property from the value of its first name; when the first name
\* or a step on the way is absent it writes nothing and raises no error, so
\* the render goes on to its end
C24_DeepAbsentIsEmpty ==
    /\ \A i \in Deeplinked : output[i].val = LinkValue
    /\ errors = <<>>
    /\ \A r \in DOMAIN rend : rend[r].st # "errored"
    /\ (Ended /\ LinkValue # Undefined) => Deeplinked # {}

\* what holds: the path is read property by property, and a last step that is
\* absent writes nothing; but reading a property of an absent value throws, and
\* the render stops with an 'error' at the placeholder
DeeplinksReadOrThrow ==
    /\ \A i \in Deeplinked : output[i].val = LinkValue
    /\ (Ended /\ LinkValue # Undefined) => Deeplinked # {}
    /\ errors # <<>> =>
          /\ LookupVar(vars, parentOf, Root, LinkTag.name) = Undefined
                \/ \E n \in 1..(Len(LinkTag.deeplinks) - 1) :
                      PathValue(LookupVar(vars, parentOf, Root, LinkTag.name),
                                SubSeq(LinkTag.deeplinks, 1, n)) = Undefined
          /\ output = <<>>
    /\ Ended => errors = <<>>

-----------------------------------------------------------------------------
(* Properties: errors                                                      *)

\* the root Renderer failed on one of its own elements
RootFailed == \E i \in DOMAIN errors : errors[i].block = Root

\* C25: what has been written stays written, and after the root has failed on
\* an element (nm a promise that rejected, or a byte stream that emitted
\* 'error') the elements after it are still written and the render ends
C25_FailureIsLocal ==
    /\ [][IsPrefix(output, output')]_vars_all
    /\ [](RootFailed => <>(Ended /\ TextAt(<<"b">>) # {}))

\* what holds: a Renderer that has failed on an element takes no further
\* element and never ends, so the text after a failed nm is never written
FailureStopsRender ==
    RootFailed =>
        /\ rend[RootPath].st = "errored"
        /\ TextAt(<<"b">>) = {}
        /\ ~Ended

\* the promise p of toString: resolve(content) on 'end', reject(error) on
\* 'error', whichever comes first; a Renderer that has emitted 'error' never
\* ends, so the two exclude each other
StringPromise ==
    IF errors # <<>> THEN [state |-> "rejected", with |-> errors[1]]
    ELSE IF Ended THEN [state |-> "resolved", with |-> Out]
    ELSE [state |-> "pending", with |-> Undefined]

\* what toString(cb) returns: p when cb is no function, and nothing otherwise
Returned ==
    CASE phase = "toString" -> "promise"
      [] phase = "toStringCb" -> "undefined"
      [] OTHER -> "stream"

\* the calls of cb: p.then(content => cb(undefined, content)) and
\* p.catch(error => cb(error))
CallbackCalls ==
    IF phase # "toStringCb" \/ StringPromise.state = "pending" THEN <<>>
    ELSE IF StringPromise.state = "resolved"
    THEN <<[error |-> Undefined, content |-> StringPromise.with]>>
    ELSE <<[error |-> StringPromise.with, content |-> Undefined]>>

\* the Renderers that have failed: a rejected promise, a failed stream
\* variable, an unsupported data source
Errored == {r \in DOMAIN rend : rend[r].st = "errored"}

\* C26: whenever a Renderer at any depth has failed, the consumer of the root
\* stream has received an 'error' for it, a toString() promise is rejected with
\* it, and a toString(cb) callback has been called once with it and no content
C26_ErrorsSurface ==
    \A r \in Errored :
        /\ \E i \in DOMAIN errors :
              /\ errors[i].block = rend[r].block
              /\ errors[i].src = r \/ Above(errors[i].src) = r
        /\ phase = "toString" => StringPromise.state = "rejected"
        /\ phase = "toStringCb" =>
              /\ Len(CallbackCalls) = 1
              /\ CallbackCalls[1].error \in {errors[i] : i \in DOMAIN errors}
              /\ CallbackCalls[1].content = Undefined

\* what holds: a Renderer that fails while it and every Renderer above it are
\* piped is heard by the consumer; the Renderer of a row of an array that
\* fails before its turn to be piped is heard by nobody
HeardErrorsSurface ==
    [][\A r \in DOMAIN rend :
          (/\ rend[r].st # "errored"
           /\ rend'[r].st = "errored"
           /\ \A k \in 1..Len(r) : rend[SubSeq(r, 1, k)].piped)
             => /\ Len(errors') = Len(errors) + 1
                /\ errors'[Len(errors')].block = rend[r].block]_vars_all

\* C27: toString, with or without a callback, returns a promise; the promise
\* resolves to the chunks of the render joined in the order they were emitted;
\* a callback is called at most once, with (undefined, content) when the
\* render has ended and with (error) alone when it has failed
C27_ToStringReturnsPromise ==
    phase \in {"toString", "toStringCb"} =>
        /\ Returned = "promise"
        /\ Ended => StringPromise = [state |-> "resolved", with |-> Out]
        /\ phase = "toStringCb" =>
              /\ Len(CallbackCalls) <= 1
              /\ Ended => CallbackCalls = <<[error |-> Undefined, content |-> Out]>>
              /\ errors # <<>> =>
                    CallbackCalls = <<[error |-> errors[1], content |-> Undefined]>>

\* what holds: without a callback toString returns the promise, with one it
\* returns nothing; the callback is called as claimed
ToStringCallsBack ==
    /\ phase = "toString" => Returned = "promise"
    /\ phase = "toStringCb" =>
          /\ Returned = "undefined"
          /\ Len(CallbackCalls) <= 1
          /\ Ended => CallbackCalls = <<[error |-> Undefined, content |-> Out]>>
          /\ errors # <<>> =>
                CallbackCalls = <<[error |-> errors[1], content |-> Undefined]>>
    /\ (phase = "toString" /\ Ended) =>
          StringPromise = [state |-> "resolved", with |-> Out]

-----------------------------------------------------------------------------
(* Properties: the end of the output                                       *)

\* the byte stream at a delivers its 'end' in this step
EndsNow(a) ==
    /\ Listeners(a) # {}
    /\ arrays[a] # <<>>
    /\ Head(arrays[a]) = StreamEnded
    /\ arrays'[a] = <<>>

\* C28: in the step in which the Renderer of a nested block or of a row ends,
\* and in the step in which a stream variable ends, the Renderer it is piped
\* into stays open, and a Renderer waiting for a stream variable is free for
\* its next element; the root ends only when its queue is exhausted and the
\* last element, the text b, has been written; once ended it stays ended, and
\* nothing is written after that
C28_OnlyTheRootEndsTheOutput ==
    [][/\ \A r \in DOMAIN rend \ {RootPath} :
             (rend[r].st # "ended" /\ rend'[r].st = "ended")
                => rend'[Above(r)].st = "flowing"
       /\ \A a \in DOMAIN arrays :
             EndsNow(a) => \A r \in Listeners(a) :
                              rend'[r].st = "flowing" /\ ~rend'[r].busy
       /\ (~Ended /\ Ended') =>
             /\ rend[RootPath].readEnded
             /\ TextAt(<<"b">>) # {}
             /\ \A r \in DOMAIN rend \ {RootPath} : rend[r].st = "ended"
       /\ Ended => (Ended' /\ output' = output)]_vars_all

\* the render has ended after the two rows of b1 and a stream bound to nm did
C28_Witness ==
    /\ Ended
    /\ Cardinality({r \in DOMAIN rend : IsRow(r) /\ rend[r].st = "ended"}) > 1
    /\ NmBound /\ NmValue.t = "bytes" /\ NmAt # {}
    /\ TextAt(<<"b">>) # {}

-----------------------------------------------------------------------------
(* Properties: the block tree                                              *)

TreeNames == {<<"b","1">>, <<"b","3">>}

\* the name a segment opens a block with, or closes one with; "" for neither
OpenName(seg) ==
    IF \E n \in TreeNames : seg = OpenOf(n)
    THEN Str(CHOOSE n \in TreeNames : seg = OpenOf(n)) ELSE ""
CloseName(seg) ==
    IF \E n \in TreeNames : seg = CloseOf(n)
    THEN Str(CHOOSE n \in TreeNames : seg = CloseOf(n)) ELSE ""

\* the markers of a template read left to right with a stack of the blocks
\* open: found holds, for every open marker, the names of the blocks around it
\* and its own joined with ':' (path) and the same for the block it is in (up);
\* ok says that every close marker closed the innermost open block and that
\* none stayed open; once says that no path was found twice
RECURSIVE Paired(_, _, _)
Paired(ss, stack, acc) ==
    IF ss = <<>> THEN [acc EXCEPT !.ok = @ /\ stack = <<>>]
    ELSE IF OpenName(Head(ss)) # ""
    THEN LET up   == IF stack = <<>> THEN "" ELSE stack[Len(stack)].path
             path == IF up = "" THEN OpenName(Head(ss))
                     ELSE up \o ":" \o OpenName(Head(ss))
         IN  Paired(Tail(ss),
                    Append(stack, [local |-> OpenName(Head(ss)), path |-> path]),
                    [acc EXCEPT !.found = @ \cup {[path |-> path, up |-> up]},
                                !.once = @ /\ \A f \in acc.found : f.path # path])
    ELSE IF CloseName(Head(ss)) # ""
    THEN IF stack # <<>> /\ stack[Len(stack)].local = CloseName(Head(ss))
         THEN Paired(Tail(ss), SubSeq(stack, 1, Len(stack) - 1), acc)
         ELSE [acc EXCEPT !.ok = FALSE]
    ELSE Paired(Tail(ss), stack, acc)

Marked == Paired(segs, <<>>, [ok |-> TRUE, once |-> TRUE, found |-> {}])

\* the local names a block of these views can have
LocalNames == {"b1", "b3", "ld", "in"}

Exposed == Root \in Blocks

\* C30: a template whose block markers do not pair up (an open marker never
\* closed, a close marker with no block open, blocks that overlap) is rejected
\* by create(): no view is exposed, and no block of it
C30_MalformedRejects == ~Marked.ok => ~Exposed /\ Blocks = {}

\* what the code does: create() always resolves with a view; a marker the block
\* pattern pairs with nothing stays in the text, and a template in which it
\* pairs none renders as it was written
MalformedIsText ==
    /\ Exposed
    /\ (Ended /\ Blocks = {Root}) => Out = Flatten(segs)

\* a template with an open marker never closed has been rendered to its end
MalformedIsText_Witness ==
    /\ ~Marked.ok /\ Ended /\ Blocks = {Root}
    /\ \E i \in DOMAIN segs : OpenName(segs[i]) # ""


\* the close marker of the block opened just before position k, found by
\* counting the markers open since (0 when there is none)
RECURSIVE CloseFor(_, _, _)
CloseFor(ss, k, depth) ==
    IF k > Len(ss) THEN 0
    ELSE IF OpenName(ss[k]) # "" THEN CloseFor(ss, k + 1, depth + 1)
    ELSE IF CloseName(ss[k]) # ""
    THEN IF depth = 0 THEN k ELSE CloseFor(ss, k + 1, depth - 1)
    ELSE CloseFor(ss, k + 1, depth)

OwnClose(i) == CloseFor(segs, i + 1, 0)

\* the text written from position k up to position j, each block written in
\* it standing as the placeholder of its name
RECURSIVE Between(_, _, _)
Between(ss, k, j) ==
    IF k >= j THEN <<>>
    ELSE IF OpenName(ss[k]) # ""
    THEN Spliced(CHOOSE n \in TreeNames : ss[k] = OpenOf(n))
            \o Between(ss, CloseFor(ss, k + 1, 0) + 1, j)
    ELSE ss[k] \o Between(ss, k + 1, j)

\* every open marker has a block of its name whose content is the text between
\* the marker and its own close marker
OwnMarkersDelimit ==
    \A i \in DOMAIN segs :
       OpenName(segs[i]) # "" =>
          \E b \in Blocks \ {Root} :
             /\ b = ChildName(parentOf[b], OpenName(segs[i]))
             /\ content[b] = Between(segs, i + 1, OwnClose(i))

\* C31: in a template whose markers pair up, each open marker is paired with
\* its own close marker, also when a name is written again inside the block or
\* at another place: the content of each block is the text between its markers
C31_OwnClosePairs == Marked.ok => OwnMarkersDelimit

\* a name is opened again after a block of that name was closed
Reopened ==
    \E i, j \in DOMAIN segs :
       /\ i < j
       /\ CloseName(segs[i]) # ""
       /\ CloseName(segs[i]) = OpenName(segs[j])

\* what the code does: an open marker is paired with the last close marker of
\* its name in the text of the enclosing block, which is its own unless the
\* name is opened again further on
LastClosePairs == (Marked.ok /\ ~Reopened) => OwnMarkersDelimit

\* a block written inside a block of the same name
LastClosePairs_Witness ==
    /\ Marked.ok /\ ~Reopened
    /\ FullName("b1:b1") \in Blocks


-----------------------------------------------------------------------------
(* Properties: the placeholders of blocks                                  *)

\* what the text written from position k up to position j renders to when
\* nothing is set: the plain text, and at the place of each block what the
\* block renders to, with the text l before it and the text r after it
RECURSIVE Rendering(_, _, _, _, _)
Rendering(ss, k, j, l, r) ==
    IF k >= j THEN <<>>
    ELSE IF OpenName(ss[k]) # ""
    THEN l \o Rendering(ss, k + 1, CloseFor(ss, k + 1, 0), l, r) \o r
           \o Rendering(ss, CloseFor(ss, k + 1, 0) + 1, j, l, r)
    ELSE ss[k] \o Rendering(ss, k + 1, j, l, r)

\* the child blocks the constructor of b found in its text and bound in b's
\* table; "ld" is bound by load(), which writes no placeholder
BoundBlocks(b) ==
    {k \in DOMAIN vars[b] \ {"ld"} : vars[b][k] = BlockVal(ChildName(b, k))}

\* the elements RenderQueue pushes for the content of b
Queue(b) == Tokens(content[b])

RawTags(b, k) ==
    {i \in DOMAIN Queue(b) : /\ Queue(b)[i].is = "tag"
                             /\ Queue(b)[i].name = k
                             /\ ~Queue(b)[i].escape}

Brace == {"{", "}"}

\* C32: the placeholder the constructor writes at the place of a child block
\* is read by RenderQueue as one raw tag of the block's name and no brace of
\* it stays behind as text, so that the output has at that place what the
\* block renders to and nothing else
C32_PlaceholderIsOneTag ==
    (Marked.ok /\ ~Reopened) =>
        /\ \A b \in Blocks :
              /\ \A k \in BoundBlocks(b) : Cardinality(RawTags(b, k)) = 1
              /\ \A i \in DOMAIN Queue(b) :
                    \A x \in DOMAIN Queue(b)[i].text :
                       Queue(b)[i].text[x] \notin Brace
        /\ Ended => Out = Rendering(segs, 1, Len(segs) + 1, <<>>, <<>>)

\* what the code does: the two inner braces of each side make the raw tag, the
\* outer ones are text of the parent, one before the tag and one after it
PlaceholderInBraces ==
    (Marked.ok /\ ~Reopened) =>
        /\ \A b \in Blocks :
              \A k \in BoundBlocks(b) :
                 /\ Cardinality(RawTags(b, k)) = 1
                 /\ \A i \in RawTags(b, k) :
                       /\ i > 1 /\ i < Len(Queue(b))
                       /\ Queue(b)[i - 1].is = "text"
                       /\ Queue(b)[i - 1].text # <<>>
                       /\ Queue(b)[i - 1].text[Len(Queue(b)[i - 1].text)] = "{"
                       /\ Queue(b)[i + 1].is = "text"
                       /\ Queue(b)[i + 1].text # <<>>
                       /\ Queue(b)[i + 1].text[1] = "}"
        /\ Ended => Out = Rendering(segs, 1, Len(segs) + 1, <<"{">>, <<"}">>)

\* a block in a block, rendered to the end
PlaceholderInBraces_Witness ==
    /\ Marked.ok /\ ~Reopened /\ Ended
    /\ FullName("b1:b3") \in Blocks


-----------------------------------------------------------------------------
(* Properties: the variables of a row                                      *)

\* the row of the host's array that the Renderer at r renders
RowGiven(r) == Given(rend[r].block)[RowIndex(r) + 1]

\* what a placeholder naming k has to read in the row render at r: the row's
\* own value, else what the iterated block reads
RowExpects(r, k) ==
    IF k \in DOMAIN RowGiven(r) THEN RowGiven(r)[k]
    ELSE LookupVar(vars, parentOf, rend[r].block, k)

\* the chunks a row Renderer wrote for its own tags
RowChunks ==
    {i \in DOMAIN output : /\ Above(output[i].src) \in RowRenderers
                           /\ output[i].e.is = "tag"}

\* C33: in a row render a key of the row reads the row's value, whatever the
\* block and the blocks around it hold under that key, and any other key reads
\* what the block reads, so never the value of another row; and while the rows
\* are rendered the tables of the blocks stay as they were
C33_RowShadowsBlock ==
    /\ [](/\ \A r \in RowRenderers : \A k \in Keys :
                /\ RowReads(r, k) = RowExpects(r, k)
                /\ k \notin DOMAIN RowGiven(r) =>
                      \A i \in DOMAIN Given(rend[r].block) :
                         \A j \in DOMAIN Given(rend[r].block)[i] :
                            RowReads(r, k) # Given(rend[r].block)[i][j]
          /\ \A i \in RowChunks :
                output[i].val = RowExpects(Above(output[i].src), output[i].e.name))
    /\ [][phase # "setup" => \A b \in Blocks : vars'[b] = vars[b]]_vars_all

\* both rows are rendered, with n1 set on the block and n2 on the root: the
\* first row wrote its own n1 and the root's n2, the second its own n2 and the
\* block's n1
C33_Witness ==
    /\ Ended
    /\ "n1" \in DOMAIN vars[FullName("b1")]
    /\ "n2" \in DOMAIN vars[Root]
    /\ "n2" \notin DOMAIN vars[FullName("b1")]
    /\ \E w, x, y, z \in RowChunks :
          /\ w < x /\ x < y /\ y < z
          /\ output[w].val = RowValue(8)
          /\ output[x].val = StrVal(ValueFor("", "n2"))
          /\ output[y].val = StrVal(ValueFor("b1", "n1"))
          /\ output[z].val = RowValue(9)


-----------------------------------------------------------------------------
(* Properties: the end of a render                                         *)

\* the output stream has emitted 'error'
OutputFailed == errors # <<>>

\* C34: a render that has begun comes to its end: when every promise of the
\* host settles, the output stream emits 'end' or 'error', also when the
\* promise for a data source rejects
C34_RenderTerminates == (phase # "setup") ~> (Ended \/ OutputFailed)

\* what the code does: the render comes to its end when no promise rejects
EndsUnlessRejected ==
    [](\A p \in DOMAIN promises : promises[p].state # "rejected")
        => ((phase # "setup") ~> Ended)

\* and the Renderer of a block whose data source has rejected stays as it was
\* constructed, with the Renderer above it waiting for its end
RejectedSourceStalls ==
    \A r \in DOMAIN rend :
       (/\ ~IsRow(r)
        /\ dataSource[rend[r].block] # 0
        /\ promises[dataSource[rend[r].block]].state = "rejected")
       => /\ rend[r].st = "constructed"
          /\ ~Ended
          /\ ~OutputFailed


-----------------------------------------------------------------------------
(* Properties: the file loader                                             *)

\* the calls of loadFile for a path that read the disk
DiskReads(fullpath) ==
    {i \in DOMAIN reading : reading[i].path = fullpath /\ reading[i].disk}

\* C35: however the calls of loadFile for one resolved path overlap, the disk
\* is read for it at most once, and the calls that resolve resolve to the same
\* content
C35_ReadOncePerPath ==
    /\ \A i \in DOMAIN reading : Cardinality(DiskReads(reading[i].path)) <= 1
    /\ \A i, j \in DOMAIN reading :
          (/\ reading[i].path = reading[j].path
           /\ reading[i].state = "resolved"
           /\ reading[j].state = "resolved")
          => reading[i].content = reading[j].content

\* what the code does: a call reads the disk exactly when the memo does not
\* hold its path at the time of the call, and the memo holds a path only from
\* the end of a read of it on; the calls that resolve resolve to what is on
\* the disk
MemoAfterRead ==
    /\ [][Len(reading') > Len(reading) =>
             (reading'[Len(reading')].disk
                 <=> Str(reading'[Len(reading')].path) \notin DOMAIN memo)]_vars_all
    /\ [](/\ \A i \in DOMAIN reading :
                reading[i].state = "resolved" =>
                   reading[i].content = OnDisk(reading[i].path)
          /\ \A k \in DOMAIN memo :
                \E i \in DOMAIN reading :
                   /\ Str(reading[i].path) = k
                   /\ reading[i].disk
                   /\ reading[i].state = "resolved")

\* two calls for one file under two spellings, the second made while the read
\* of the first was in flight, and a third made after: two reads of the disk
MemoAfterRead_Witness ==
    /\ Len(reading) = 3
    /\ \A i \in DOMAIN reading : reading[i].path = <<"f">>
    /\ reading[1].disk /\ reading[2].disk /\ ~reading[3].disk
    /\ \A i \in DOMAIN reading : reading[i].state = "resolved"


-----------------------------------------------------------------------------
(* Properties: a block inside its own render                               *)

\* block b and the blocks written around it
RECURSIVE Around(_)
Around(b) == IF b = NoBlock THEN {} ELSE {b} \cup Around(parentOf[b])

\* the names of the tags RenderQueue reads from the content of b
TagNames(b) ==
    {Queue(b)[i].name : i \in {j \in DOMAIN Queue(b) : Queue(b)[j].is = "tag"}}

\* a placeholder in some block reads that block or a block written around it
NamesEnclosing ==
    \E b \in Blocks : \E k \in TagNames(b) : \E a \in Around(b) :
       LookupVar(vars, parentOf, b, k) = BlockVal(a)

\* the Renderer at r renders a block inside a render of the same block
InsideItself(r) ==
    \E n \in 0..(Len(r) - 1) :
       /\ SubSeq(r, 1, n) \in DOMAIN rend
       /\ rend[SubSeq(r, 1, n)].block = rend[r].block

\* the most blocks written one inside the other, the root counted
Nesting == MaxOf({Len(Chain(parentOf, b)) : b \in Blocks})

\* C36: no placeholder reads the block it is written in or a block around
\* that one, so no block is rendered inside its own render and the renders lie
\* no deeper one inside the other than the blocks of the template
C36_NoSelfRender ==
    /\ ~NamesEnclosing
    /\ \A r \in DOMAIN rend : ~InsideItself(r) /\ Len(r) < Nesting

\* what the code does: the name of a block is bound in the table of the block
\* around it, which the block itself and every block in it inherit; a template
\* in which no placeholder reads an enclosing block renders to its end, each
\* block where it is named
SelfRenderOnlyWhenNamed ==
    ~NamesEnclosing =>
        \A r \in DOMAIN rend : ~InsideItself(r) /\ Len(r) < Nesting

\* the inner block of {#b1}a{#b3}c{/b3}{b3}{/b1} has been rendered twice, at its
\* own place and where it is named, and the render has ended
SelfRenderOnlyWhenNamed_Witness ==
    /\ ~NamesEnclosing /\ Ended
    /\ Cardinality({r \in DOMAIN rend : rend[r].block = B3}) = 2


-----------------------------------------------------------------------------
(* Properties: the data source after a render                              *)

\* the blocks the host has set an array on
Iterated == {b \in Blocks : dataSource[b] # 0}

\* the array of block b as it is now
ArrayNow(b) == arrays[promises[dataSource[b]].payload.a]

\* the Renderers made for block b itself, and those made for its rows
RendersOf(b) == {r \in DOMAIN rend : rend[r].block = b /\ ~IsRow(r)}
RowsUnder(r) == {q \in RowRenderers : Above(q) = r}

\* C37: a render takes nothing from a data source: the array the host passed
\* still holds every row, and every render of the block, in each row of an
\* iterated block around it, renders all of them
C37_SourceNotConsumed ==
    /\ \A b \in Iterated : ArrayNow(b) = Given(b)
    /\ Ended => \A b \in Iterated : \A r \in RendersOf(b) :
                   Cardinality(RowsUnder(r)) = Len(Given(b))

\* what the code does: each row is shifted off the host's array when it is
\* read, so that at the end of the render the array is empty and every row has
\* been rendered once, in whichever render of the block came to it
RowsShiftedOff ==
    /\ \A b \in Iterated :
          \E n \in 0..Len(Given(b)) :
             /\ ArrayNow(b) = SubSeq(Given(b), n + 1, Len(Given(b)))
             /\ Cardinality({q \in RowRenderers : rend[q].block = b}) = n
    /\ Ended => \A b \in Iterated : RendersOf(b) # {} => ArrayNow(b) = <<>>

\* both blocks were iterated and the render has ended: the inner block was
\* rendered in each of the two rows of the outer one, and one of the two
\* renders found no row
RowsShiftedOff_Witness ==
    /\ Ended
    /\ Iterated = {B1, B3}
    /\ Cardinality(RendersOf(B3)) = 2
    /\ \E r \in RendersOf(B3) : RowsUnder(r) = {}


-----------------------------------------------------------------------------
(* Properties: a key set several times                                     *)

\* the values the render wrote for nm
WrittenNm == {output[i].val : i \in {j \in DOMAIN output : output[j].e.name = "nm"}}

\* the value under nm is not replaced by the value of an earlier call
NoGoingBack ==
    "nm" \in DOMAIN vars[Root] =>
        CallNo(vars'[Root]["nm"]) >= CallNo(vars[Root]["nm"])

\* C38: of several calls of set() for one key of one block, made before the
\* render, the last decides the value rendered, whether the calls passed the
\* key-values or promises for them and in whatever order the promises resolve
C38_LastSetWins ==
    /\ [][NoGoingBack]_vars_all
    /\ []((Done /\ Calls > 0) => WrittenNm = {CallValue(Calls)})

\* what the code does: key-values are assigned at the call, promised ones when
\* the promise resolves, and the value rendered is the one assigned last; it is
\* the value of the last call when no call passed a promise
LastAssignedWins ==
    /\ [][\A p \in DOMAIN promises :
             (promises[p].state = "pending" /\ promises'[p].state = "resolved")
                => vars'[Root]["nm"] = promises[p].payload["nm"]]_vars_all
    /\ [][(phase = "setup" /\ promises' = promises /\ vars' # vars)
             => vars'[Root]["nm"] = CallValue(Calls + 1)]_vars_all
    /\ [](Done => WrittenNm = IF "nm" \in DOMAIN vars[Root]
                               THEN {vars[Root]["nm"]} ELSE {})
    /\ []((Done /\ promises = <<>> /\ Calls > 0)
             => WrittenNm = {CallValue(Calls)})

\* set(promise for v1), set({nm: v2}), the promise resolves, the render: v1 is
\* written
LastAssignedWins_Witness ==
    /\ Done
    /\ Len(promises) = 1
    /\ promises[1].payload["nm"] = CallValue(1)
    /\ WrittenNm = {CallValue(1)}
    /\ Calls = 1


-----------------------------------------------------------------------------
(* Properties: a block inside a row                                        *)

\* the Renderers of a block written inside an iterated block, made in the
\* render of a row
NestedInRow ==
    {r \in DOMAIN rend : r # RootPath /\ ~IsRow(r) /\ Above(r) \in RowRenderers}

\* what a placeholder naming k reads in the Renderer at r
Reads(r, k) == LookupVar(vars, parentOf, rend[r].scope, k)

\* the chunks the Renderer at r wrote for its own tags
TagChunks(r) ==
    {i \in DOMAIN output : Above(output[i].src) = r /\ output[i].e.is = "tag"}

\* C39: in the render of a row, a block written inside the iterated block
\* reads the keys of that row and the row's index through the row's table, and
\* writes the row's value for a placeholder that names a key of the row
C39_NestedReadsRow ==
    \A r \in NestedInRow :
       /\ \A k \in DOMAIN RowGiven(Above(r)) :
             Reads(r, k) = RowGiven(Above(r))[k]
       /\ Reads(r, "talismanRowNum") = NumVal(RowIndex(Above(r)))
       /\ \A i \in TagChunks(r) :
             output[i].e.name \in DOMAIN RowGiven(Above(r))
                => output[i].val = RowGiven(Above(r))[output[i].e.name]

\* what the code does: the inner block inherits from the table of the iterated
\* block, not from the table of the row's clone, so in every row it reads what
\* the iterated block itself reads, and no row index
NestedReadsBlock ==
    \A r \in NestedInRow :
       /\ \A k \in Keys \cup {"talismanRowNum"} :
             Reads(r, k) = LookupVar(vars, parentOf, rend[Above(r)].block, k)
       /\ Reads(r, "talismanRowNum") = Undefined
       /\ \A i \in TagChunks(r) :
             output[i].val = LookupVar(vars, parentOf, rend[Above(r)].block,
                                       output[i].e.name)

\* the render has ended with n2 set on the iterated block: inside the second
\* row, whose n2 is r<9, the inner block wrote the block's n2
NestedReadsBlock_Witness ==
    /\ Ended
    /\ \E r \in NestedInRow :
          /\ RowGiven(Above(r)) = KeyRows[2]
          /\ \E i \in TagChunks(r) :
                /\ output[i].e.name = "n2"
                /\ output[i].val = StrVal(ValueFor("b1", "n2"))


-----------------------------------------------------------------------------
(* Properties: the binding of a child block                                *)

\* the name a block was registered under in its parent
LocalNameOf(b) == CHOOSE k \in LocalNames : b = ChildName(parentOf[b], k)

\* the block name the host passes to reach block b
ArgOf(b) == IF b = Root THEN "" ELSE "b1"

\* what the parent's table holds under the local name of b
Binding(b) == LookupVar(vars, parentOf, parentOf[b], LocalNameOf(b))

\* the Renderers of block p that have written its content and ended; a block
\* that was removed writes nothing
EndedOf(p) ==
    {r \in DOMAIN rend : rend[r].block = p /\ rend[r].st = "ended" /\ isVisible[p]}

\* the Renderers of block b made in the Renderer at r
Under(r, b) == {q \in DOMAIN rend : q # RootPath /\ Above(q) = r /\ rend[q].block = b}

\* C40: whatever the host sets, every child block stays bound under its local
\* name in its parent, and is rendered at its position in every render of the
\* parent
C40_ChildStaysBound ==
    \A b \in Blocks \ {Root} :
       /\ Binding(b) = BlockVal(b)
       /\ \A r \in EndedOf(parentOf[b]) : Under(r, b) # {}

\* what the code does: the block map keeps every block under its full name, so
\* calls that name the block still reach it, but the parent's table holds under
\* the local name what was assigned last, the block or a value set since; a
\* render of the parent writes that value where the block would be, and renders
\* the block only if the table still holds it
BindingIsLastAssigned ==
    \A b \in Blocks \ {Root} :
       LET p == parentOf[b]
           k == LocalNameOf(b)
           v == StrVal(ValueFor(ArgOf(p), k))
       IN  /\ FullName(IF p = Root THEN k ELSE "b1:" \o k) = b
           /\ Binding(b) \in {BlockVal(b), v}
           /\ \A r \in EndedOf(p) :
                 IF Binding(b) = BlockVal(b)
                 THEN Under(r, b) # {}
                 ELSE /\ Under(r, b) = {}
                      /\ \E i \in TagChunks(r) :
                            output[i].e.name = k /\ output[i].val = v

\* the host set b1 on the root and removed block b1 by its name: the call
\* reached the block, and the render wrote the value where the block would be
BindingIsLastAssigned_Witness ==
    /\ Done
    /\ Binding(B1) = StrVal(ValueFor("", "b1"))
    /\ ~isVisible[B1]
    /\ Under(RootPath, B1) = {}
    /\ \E i \in TagChunks(RootPath) : output[i].val = StrVal(ValueFor("", "b1"))

=============================================================================
